---- MODULE Spec2Model ----
(***************************************************************************)
(* Model of the LiqX rebalancing pipeline (src/agents/*.py):               *)
(*   Position Monitor -> Yield Optimizer (Scorer) -> Swap Optimizer        *)
(*   (Planner) -> Cross-Chain Executor -> Position Monitor.                *)
(* Every agent is an actor with an inbox.  A handler is split into one     *)
(* action per stretch of code between two awaits, so that handler          *)
(* instances of one agent may interleave at their await points.            *)
(* Money is counted in thousandths of a dollar, time in seconds.           *)
(***************************************************************************)
EXTENDS Integers, Sequences, FiniteSets, TLC

VARIABLES
    \* ---- Position Monitor (position_monitor.py) ----
    positions,            \* self.positions: user address -> position data
    posOrder,             \* insertion order of the keys of self.positions
    alerted_positions,    \* self.alerted_positions: key -> time of the last alert
    last_subgraph_fetch,  \* self.last_subgraph_fetch
    demo_status,          \* self.demo_status: position id -> status
    pendingDemo,          \* self._pending_demo_alert
    monTodo,              \* the keys monitor_positions has still to check this tick
    monChecking,          \* monitor_positions is inside its loop over the positions
    monInbox,             \* ExecutionResult messages in flight to the monitor
    now,                  \* time.time()
    \* ---- Yield Optimizer (yield_optimizer.py) ----
    scorerInbox,          \* PositionAlert messages in flight to the scorer
    processed_positions,  \* self.processed_positions
    optimizations_sent,   \* self.optimizations_sent
    scorerRuns,           \* handle_position_alert instances waiting for yield data
    \* ---- Swap Optimizer (swap_optimizer.py) ----
    plannerInbox,         \* OptimizationStrategy messages in flight to the planner
    routes_calculated,    \* self.routes_calculated
    \* ---- Cross-Chain Executor (cross_chain_executor.py) ----
    execInbox,            \* ExecutionPlan messages in flight to the executor
    executed_positions,   \* self.executed_positions
    executions_completed, \* self.executions_completed
    executions_failed,    \* self.executions_failed
    execRuns,             \* suspended handle_execution_plan instances
    \* ---- history (not program state) ----
    resultLog,            \* every ExecutionResult the executor sent, in send order
    stratLog,             \* every OptimizationStrategy the scorer sent
    planLog,              \* every ExecutionPlan the planner sent
    noStrategy,           \* ids of the alerts the scorer found no strategy for
    planFailed,           \* ids of the strategies the planner built no plan for
    planCalls,            \* every call of _create_execution_plan: its strategy,
                          \* whether it raised and, if not, whether each quote
                          \* returned a route
    dropLog,              \* the plan messages the executor skipped
    lastCheck,            \* the last _check_position: its user, price, time and
                          \* the health factor it computed (-1: none)
    lastAlertAt,          \* user address -> time of the last alert _send_alert sent
    clearedSince,         \* keys whose cooldown entry was deleted since that alert
    selectCall,           \* the direct call of select_optimal_strategy: its
                          \* arguments and what it returned
    methodCall,           \* the direct call of select_execution_method
    riskCall,             \* the direct call of assess_risk
    scoreCall,            \* the direct call of score_strategy
    metta_available,      \* the reasoner's: whether its engine was loaded
    refreshCall,          \* refreshes of a position table on their own
    yieldCall,            \* the direct call of _find_best_yield for two alerts
    envCount,             \* messages and requests the environment has issued
    msgSeq                \* number of messages created so far (message ids)

callVars == <<selectCall, methodCall, riskCall, scoreCall, metta_available,
             refreshCall, yieldCall>>
monVars == <<positions, posOrder, alerted_positions, last_subgraph_fetch,
             demo_status, pendingDemo, monTodo, monChecking>>
execVars == <<execInbox, executed_positions, executions_completed,
              executions_failed, execRuns>>
monHist == <<lastCheck, lastAlertAt, clearedSince>>
execHist == <<resultLog, dropLog>>
scorerVars == <<processed_positions, optimizations_sent, scorerRuns>>
plannerVars == <<plannerInbox, routes_calculated>>
flowHist == <<stratLog, planLog, noStrategy, planFailed, planCalls>>
vars == <<monVars, monInbox, now, scorerInbox, execVars, monHist, execHist,
          scorerVars, plannerVars, flowHist, callVars, envCount, msgSeq>>

\* what no action of the executor changes
execRest == <<monVars, now, scorerInbox, monHist, scorerVars, plannerVars, flowHist,
             callVars>>
\* what no action of the monitor changes
monRest == <<execVars, execHist, scorerVars, plannerVars, flowHist, callVars>>

(***************************************************************************)
(* Bounds of the model                                                     *)
(***************************************************************************)
\* plan messages the environment sends to the executor in one behaviour
MaxEnvPlans == 3
\* result messages other senders send to the monitor in one behaviour
MaxEnvResults == 1
\* alerts other senders send to the scorer in one behaviour
MaxEnvAlerts == 2
\* strategies the environment sends to the planner
MaxEnvStrategies == 3
\* candidates in one direct call of select_optimal_strategy
MaxCandidates == 3
\* refreshes of one table on its own
MaxRefreshes == 3
\* demo triggers in one behaviour
MaxDemo == 1
\* seconds of clock the model follows
MaxElapsed == 300
\* the clock at start (time.time() is far above the cooldown)
StartTime == 1000

\* position ids: "u1", "u2" are also user addresses, "p1" is an id that is
\* no user's address
PosIds == {"u1", "p1"}

(***************************************************************************)
(* Execution plans and their steps                                         *)
(***************************************************************************)
KnownStepTypes == {"repay_debt", "withdraw_collateral", "swap", "bridge",
                   "fusion_plus_cross_chain", "supply_collateral"}

\* a step: its tag, its 'estimated_gas' entry (-1: the key is absent) and
\* whether running it raises (a key the branch reads is missing or malformed)
Step(t, g, bad) == [type |-> t, estimated_gas |-> g, raises |-> bad]

\* the gas cost _execute_plan adds for a step
StepGasBug(step) ==
    IF step.type \in {"bridge", "swap"} THEN 0
    ELSE IF step.estimated_gas = -1 THEN 5 ELSE step.estimated_gas
StepGas(step) ==
    LET g == step.estimated_gas
    IN  CASE step.type \in {"repay_debt", "withdraw_collateral", "supply_collateral"}
               -> IF g = -1 THEN 5 ELSE g
          [] step.type = "swap" -> IF g = -1 THEN 10 ELSE g
          [] step.type = "bridge" -> IF g = -1 THEN 5000 ELSE g
          [] OTHER -> 0

\* the placeholder transaction hash _execute_plan appends for a step
TxHashBug(step) == "0x..1"
TxHash(step) ==
    CASE step.type = "repay_debt" -> "0x..1"
      [] step.type = "withdraw_collateral" -> "0x..2"
      [] step.type = "swap" -> "0x..3"
      [] step.type = "bridge" -> "0x..4"
      [] step.type = "fusion_plus_cross_chain" -> "0xfusion"
      [] step.type = "supply_collateral" -> "0x..5"
      [] OTHER -> "none"

\* step lists of the plans the environment may send to the executor
EnvStepLists ==
    { <<>>,
      << Step("repay_debt", 5, FALSE), Step("withdraw_collateral", 5, FALSE),
         Step("swap", 10, FALSE), Step("supply_collateral", 5, FALSE) >>,
      << Step("withdraw_collateral", -1, FALSE), Step("swap", -1, TRUE),
         Step("bridge", 5000, FALSE), Step("supply_collateral", 5, FALSE) >>,
      << Step("swap", 7, FALSE), Step("mystery", 9, FALSE),
         Step("fusion_plus_cross_chain", 3, FALSE), Step("bridge", -1, FALSE) >>,
      << Step("repay_debt", 5, TRUE) >>,
      << Step("withdraw_collateral", 5, FALSE), Step("fusion_plus_cross_chain", 0, TRUE),
         Step("supply_collateral", 5, FALSE) >> }

Plan(pid, steps, gas, eta, id) ==
    [position_id |-> pid, steps |-> steps, total_gas_cost |-> gas,
     estimated_completion_time |-> eta, id |-> id]

\* the 'plan' field is history: the plan message the result answers
ExecutionResult(pid, ok, txs, message, gas, plan) ==
    [position_id |-> pid, success |-> ok, tx_hashes |-> txs,
     message |-> message, actual_gas_cost |-> gas, plan |-> plan]

\* the two messages _execute_plan builds
ExecutedMessage(n) == [text |-> "Executed n steps successfully", n |-> n]
ErrorMessage == [text |-> "Execution error", n |-> 0]

NoResult == [success |-> FALSE, tx_hashes |-> <<>>,
             message |-> [text |-> "none", n |-> 0], gas_cost |-> 0]

\* running the step raises: a known branch reads a key the step lacks
RaisesBug(step) == step.raises \/ step.type \notin KnownStepTypes
Raises(step) == step.raises /\ step.type \in KnownStepTypes

(***************************************************************************)
(* Cross-Chain Executor                                                    *)
(***************************************************************************)
\* any sender may deliver an ExecutionPlan to the executor
EnvSendPlan ==
    /\ envCount < MaxEnvPlans
    /\ \E pid \in PosIds, steps \in EnvStepLists :
          execInbox' = Append(execInbox, Plan(pid, steps, 0, 0, msgSeq + 1))
    /\ msgSeq' = msgSeq + 1
    /\ envCount' = envCount + 1
    /\ UNCHANGED <<executed_positions, executions_completed, executions_failed,
                   execRuns, monInbox, execHist, execRest>>

\* the idempotency guard of handle_execution_plan
AlreadyExecutedBug(pid) == FALSE
AlreadyExecuted(pid) == pid \in executed_positions

\* handle_execution_plan, guard taken: the plan is skipped
HandlePlanSkip ==
    /\ execInbox # <<>>
    /\ AlreadyExecuted(Head(execInbox).position_id)
    /\ execInbox' = Tail(execInbox)
    /\ dropLog' = dropLog \cup
          {[plan |-> Head(execInbox),
            done |-> \E k \in DOMAIN resultLog :
                        resultLog[k].position_id = Head(execInbox).position_id]}
    /\ UNCHANGED <<executed_positions, executions_completed, executions_failed,
                   execRuns, monInbox, resultLog, envCount, msgSeq, execRest>>

\* handle_execution_plan up to the first await inside _execute_plan: the
\* position is marked before any step runs
HandlePlanAccept ==
    /\ execInbox # <<>>
    /\ LET msg == Head(execInbox)
       IN  /\ ~AlreadyExecuted(msg.position_id)
           /\ executed_positions' = executed_positions \cup {msg.position_id}
           /\ execRuns' = execRuns \cup
                 {[plan |-> msg, i |-> 1, tx_hashes |-> <<>>, total_gas |-> 0,
                   pc |-> "run", result |-> NoResult]}
    /\ execInbox' = Tail(execInbox)
    /\ UNCHANGED <<executions_completed, executions_failed, monInbox, execHist,
                   envCount, msgSeq, execRest>>

\* the dictionary _execute_plan returns after the loop, or from its except
PlanResultBug(r, raised) ==
    [success |-> ~raised, tx_hashes |-> r.tx_hashes,
     message |-> IF raised THEN ErrorMessage ELSE ExecutedMessage(Len(r.plan.steps)),
     gas_cost |-> r.total_gas]
PlanResult(r, raised) ==
    IF raised
    THEN [success |-> FALSE, tx_hashes |-> <<>>, message |-> ErrorMessage,
          gas_cost |-> 0]
    ELSE [success |-> TRUE, tx_hashes |-> r.tx_hashes,
          message |-> ExecutedMessage(Len(r.plan.steps)),
          gas_cost |-> r.total_gas]

\* one iteration of the loop of _execute_plan (the step's simulated delay
\* included); a raising step leaves the loop through the except clause
ExecutePlanStep ==
    \E r \in execRuns :
      /\ r.pc = "run"
      /\ r.i <= Len(r.plan.steps)
      /\ LET step == r.plan.steps[r.i]
         IN  execRuns' = (execRuns \ {r}) \cup
               { IF Raises(step)
                 THEN [r EXCEPT !.pc = "return", !.result = PlanResult(r, TRUE)]
                 ELSE IF step.type \in KnownStepTypes
                 THEN [r EXCEPT !.i = r.i + 1,
                                !.tx_hashes = Append(r.tx_hashes, TxHash(step)),
                                !.total_gas = r.total_gas + StepGas(step)]
                 ELSE [r EXCEPT !.i = r.i + 1] }
      /\ UNCHANGED <<execInbox, executed_positions, executions_completed,
                     executions_failed, monInbox, execHist, envCount, msgSeq,
                     execRest>>

\* the loop of _execute_plan has run every step: the success dictionary
ExecutePlanReturn ==
    \E r \in execRuns :
      /\ r.pc = "run"
      /\ r.i > Len(r.plan.steps)
      /\ execRuns' = (execRuns \ {r}) \cup
            {[r EXCEPT !.pc = "return", !.result = PlanResult(r, FALSE)]}
      /\ UNCHANGED <<execInbox, executed_positions, executions_completed,
                     executions_failed, monInbox, execHist, envCount, msgSeq,
                     execRest>>

\* handle_execution_plan after _execute_plan: the result goes to the monitor
HandlePlanSend ==
    \E r \in execRuns :
      /\ r.pc = "return"
      /\ LET res == ExecutionResult(r.plan.position_id, r.result.success,
                        r.result.tx_hashes, r.result.message, r.result.gas_cost,
                        r.plan)
         IN  /\ monInbox' = Append(monInbox, res)
             /\ resultLog' = Append(resultLog, res)
      /\ execRuns' = (execRuns \ {r}) \cup {[r EXCEPT !.pc = "sent"]}
      /\ UNCHANGED <<execInbox, executed_positions, executions_completed,
                     executions_failed, dropLog, envCount, msgSeq, execRest>>

\* handle_execution_plan after the send: the counters
HandlePlanTally ==
    \E r \in execRuns :
      /\ r.pc = "sent"
      /\ IF r.result.success
         THEN /\ executions_completed' = executions_completed + 1
              /\ UNCHANGED executions_failed
         ELSE /\ executions_failed' = executions_failed + 1
              /\ UNCHANGED executions_completed
      /\ execRuns' = execRuns \ {r}
      /\ UNCHANGED <<execInbox, executed_positions, monInbox, execHist,
                     envCount, msgSeq, execRest>>

ExecutorNext ==
    \/ HandlePlanSkip
    \/ HandlePlanAccept
    \/ ExecutePlanStep
    \/ ExecutePlanReturn
    \/ HandlePlanSend
    \/ HandlePlanTally

(***************************************************************************)
(* Position Monitor                                                        *)
(***************************************************************************)
\* thresholds and periods of position_monitor.py; health factors are in
\* hundredths
MODERATE_HF == 150
ALERT_COOLDOWN_SECONDS == 300
FETCH_PERIOD == 25
LIQUIDATION_THRESHOLD == 85
NO_DEBT_HF == 99900

\* dictionaries: a function whose domain is the set of keys present
EmptyMap == [x \in {} |-> 0]
Put(f, k, v) == [x \in DOMAIN f \cup {k} |-> IF x = k THEN v ELSE f[x]]
Del(f, k) == [x \in DOMAIN f \ {k} |-> f[x]]

\* a position as the indexer returns it
RawPosition(id, user, hf, coll, debt) ==
    [id |-> id, user |-> user, healthFactor |-> hf,
     collateralAmount |-> coll, debtAmount |-> debt]

\* lists the indexer may answer get_risky_positions with: position p1 of
\* user u1, position p2 of user u2, position p3 of user u1 with no debt, a
\* liquidated position (negative health factor), and both positions of u1
IndexerReplies ==
    { <<>>,
      << RawPosition("p1", "u1", 140, 10, 6) >>,
      << RawPosition("p1", "u1", 140, 10, 6), RawPosition("p2", "u2", 75, 30, 34) >>,
      << RawPosition("p2", "u2", 75, 30, 34), RawPosition("p3", "u1", 199, 10, 0) >>,
      << RawPosition("p1", "u2", -1, 10, 6) >>,
      << RawPosition("p1", "u1", 140, 10, 6), RawPosition("p3", "u1", 199, 10, 0) >> }

\* the outcomes of the fetch: it raises, or it returns a list
FetchOutcomes ==
    {[ok |-> FALSE, list |-> <<>>]} \cup {[ok |-> TRUE, list |-> l] : l \in IndexerReplies}

\* prices get_token_price may return for the collateral token; 0 stands for
\* no price
Prices == {0, 1, 2}

\* the dictionary monitor_positions stores for a fetched position
StoredPosition(pos) ==
    [position_id |-> pos.id, protocol |-> "aave-v3", chain |-> "ethereum",
     collateral_token |-> "WETH", collateral_amount |-> pos.collateralAmount,
     debt_token |-> "USDC", debt_amount |-> pos.debtAmount,
     health_factor |-> pos.healthFactor]

\* the loop of monitor_positions over the fetched positions: a liquidated
\* position is skipped, any other is stored under its user's address
RECURSIVE MergePositions(_, _, _)
MergePositions(tbl, order, list) ==
    IF list = <<>>
    THEN [tbl |-> tbl, order |-> order]
    ELSE LET pos == Head(list)
         IN  IF pos.healthFactor < 0
             THEN MergePositions(tbl, order, Tail(list))
             ELSE MergePositions(Put(tbl, pos.user, StoredPosition(pos)),
                                 IF pos.user \in DOMAIN tbl THEN order
                                 ELSE Append(order, pos.user),
                                 Tail(list))

\* whether monitor_positions fetches at time t
FetchDue(last, t) == t - last > FETCH_PERIOD

\* the fetch of monitor_positions and what follows it: a returned list is
\* merged and the time of the fetch recorded; when the fetch raises, the
\* failure is logged
RefreshBug(tbl, order, last, t, out) ==
    IF out.ok
    THEN LET m == MergePositions(tbl, order, out.list)
         IN  [tbl |-> m.tbl, order |-> m.order, last |-> t]
    ELSE [tbl |-> tbl, order |-> order, last |-> t]
Refresh(tbl, order, last, t, out) ==
    IF out.ok
    THEN LET m == MergePositions(tbl, order, out.list)
         IN  [tbl |-> m.tbl, order |-> m.order, last |-> t]
    ELSE [tbl |-> tbl, order |-> order, last |-> last]

\* health factor computed by _check_position, in hundredths (rounded down)
HealthFactorBug(pos, price) ==
    IF pos.debt_amount > 0
    THEN (pos.collateral_amount * price * LIQUIDATION_THRESHOLD) \div pos.debt_amount
    ELSE 0
HealthFactor(pos, price) ==
    IF pos.debt_amount > 0
    THEN (pos.collateral_amount * price * LIQUIDATION_THRESHOLD) \div pos.debt_amount
    ELSE NO_DEBT_HF

\* 'if not collateral_price: return' of _check_position, negated
HasPriceBug(price) == TRUE
HasPrice(price) == price # 0

\* 'if health_factor < MODERATE_HF' of _check_position
IsRiskyBug(hf) == hf <= MODERATE_HF
IsRisky(hf) == hf < MODERATE_HF

\* the cooldown test of _send_alert
InCooldownBug(last, t) == t - last < 0
InCooldown(last, t) == t - last < ALERT_COOLDOWN_SECONDS

\* the risk level assess_risk answers when the reasoning engine is not
\* available (the engine's rules are not part of the sources)
CRITICAL_HF == 130
SimpleRiskBug(hf) ==
    IF hf <= CRITICAL_HF THEN "critical"
    ELSE IF hf <= MODERATE_HF THEN "high"
    ELSE "moderate"
SimpleRisk(hf) ==
    IF hf < CRITICAL_HF THEN "critical"
    ELSE IF hf < MODERATE_HF THEN "high"
    ELSE "moderate"

\* what the reasoning engine may answer calculate-risk-level with: a risk
\* level, or nothing (it is not loaded, or the expression fails)
NoAnswer == "none"
EngineLabels == {"high", "safe"}
EngineAnswers(available) == {NoAnswer} \cup (IF available THEN EngineLabels ELSE {})

\* assess_risk: with the engine answering, its label and the flag set; when
\* the engine is missing or fails, the simple levels and the flag cleared
AssessRisk(hf, answer) ==
    IF answer # NoAnswer
    THEN [risk_level |-> answer, using_metta |-> TRUE]
    ELSE [risk_level |-> SimpleRisk(hf), using_metta |-> FALSE]

\* the urgency_score of the dictionary assess_risk returns: the engine's
\* score, or the fixed one of the fallback
FALLBACK_URGENCY == 5
EngineScores == {0, 3, 8, 10}
AssessUrgency(hf, answer, score) ==
    IF answer # NoAnswer THEN score ELSE FALLBACK_URGENCY

\* 'if health_factor < MODERATE_HF' of _check_position, which has the risk
\* level of assess_risk at hand
ShouldAlertBug(hf, risk_level) == risk_level \in {"critical", "high"}
ShouldAlert(hf, risk_level) == IsRisky(hf)

\* the keys of the dictionary assess_risk returns, either way
RiskKeys ==
    { "risk_level", "scenario", "liquidation_probability", "urgency_score",
      "execution_priority", "recommended_actions", "requires_immediate_action",
      "reasoning", "using_metta" }

\* the 'via' and 'id' fields are history: which path built the alert, and
\* the number of the message
PositionAlert(user, pos, cvalue, dvalue, hf, via, id) ==
    [user_address |-> user, position_id |-> pos.position_id,
     protocol |-> pos.protocol, chain |-> pos.chain, health_factor |-> hf,
     collateral_value |-> cvalue, debt_value |-> dvalue,
     collateral_token |-> pos.collateral_token, debt_token |-> pos.debt_token,
     risk_level |-> SimpleRisk(hf), via |-> via, id |-> id]

NoAlert == [user_address |-> "none", position_id |-> "none", protocol |-> "none",
            chain |-> "none", health_factor |-> 0, collateral_value |-> 0,
            debt_value |-> 0, collateral_token |-> "none", debt_token |-> "none",
            risk_level |-> "none", via |-> "none", id |-> 0]

\* position ids of the demo trigger: a predefined demo position and an id
\* that gets the default configuration
DemoIds == {"demo-1-critical-ethereum", "p1"}

\* the alert the demo trigger builds for a position id
DemoAlert(pid) ==
    IF pid = "demo-1-critical-ethereum"
    THEN [user_address |-> "demo-user", position_id |-> pid, protocol |-> "aave-v3",
          chain |-> "ethereum", health_factor |-> 115, collateral_value |-> 28311,
          debt_value |-> 25000, collateral_token |-> "WETH", debt_token |-> "USDC",
          risk_level |-> "critical", via |-> "demo", id |-> 0]
    ELSE [user_address |-> "demo-user", position_id |-> pid, protocol |-> "compound",
          chain |-> "ethereum", health_factor |-> 115, collateral_value |-> 25000,
          debt_value |-> 20000, collateral_token |-> "USDC", debt_token |-> "USDT",
          risk_level |-> "critical", via |-> "demo", id |-> 0]

\* POST /demo/trigger of the monitor's HTTP server
DemoTrigger ==
    /\ envCount < MaxDemo
    /\ \E pid \in DemoIds :
          /\ demo_status' = Put(demo_status, pid, "triggered")
          /\ pendingDemo' = DemoAlert(pid)
    /\ envCount' = envCount + 1
    /\ UNCHANGED <<positions, posOrder, alerted_positions, last_subgraph_fetch,
                   monTodo, monChecking, monInbox, now, scorerInbox, monHist,
                   msgSeq, monRest>>

\* requests POST /monitor-position may carry: here one that leaves the
\* position id out, which then defaults to the user address
AddRequests ==
    { [user_address |-> "u2", position_id |-> "u2", collateral_amount |-> 30,
       debt_amount |-> 34, health_factor |-> 0] }

\* POST /monitor-position of the monitor's HTTP server.  A key added while
\* monitor_positions iterates self.positions ends that iteration (the
\* dictionary changed size).
AddPosition ==
    \E req \in AddRequests :
      /\ positions' = Put(positions, req.user_address,
            [position_id |-> req.position_id, protocol |-> "aave-v3",
             chain |-> "ethereum", collateral_token |-> "WETH",
             collateral_amount |-> req.collateral_amount, debt_token |-> "USDC",
             debt_amount |-> req.debt_amount, health_factor |-> req.health_factor])
      /\ positions' # positions
      /\ IF req.user_address \in DOMAIN positions
         THEN UNCHANGED <<posOrder, monTodo, monChecking>>
         ELSE /\ posOrder' = Append(posOrder, req.user_address)
              /\ monTodo' = <<>>
              /\ monChecking' = FALSE
      /\ UNCHANGED <<alerted_positions, last_subgraph_fetch, demo_status,
                     pendingDemo, monInbox, now, scorerInbox, monHist, envCount,
                     msgSeq, monRest>>

\* monitor_positions up to its loop over the positions: a pending demo alert
\* is sent, the positions are fetched and merged when the last fetch is more
\* than 25 s old
MonitorTick ==
    /\ ~monChecking
    /\ IF pendingDemo # NoAlert
       THEN /\ scorerInbox' = Append(scorerInbox, [pendingDemo EXCEPT !.id = msgSeq + 1])
            /\ msgSeq' = msgSeq + 1
            /\ demo_status' = Put(demo_status, pendingDemo.position_id, "alert_sent")
            /\ pendingDemo' = NoAlert
       ELSE UNCHANGED <<scorerInbox, msgSeq, demo_status, pendingDemo>>
    /\ IF FetchDue(last_subgraph_fetch, now)
       THEN \E out \in FetchOutcomes :
              LET r == Refresh(positions, posOrder, last_subgraph_fetch, now, out)
              IN  /\ positions' = r.tbl
                  /\ posOrder' = r.order
                  /\ last_subgraph_fetch' = r.last
       ELSE UNCHANGED <<positions, posOrder, last_subgraph_fetch>>
    /\ monTodo' = posOrder'
    /\ monChecking' = (posOrder' # <<>>)
    /\ UNCHANGED <<alerted_positions, monInbox, now, monHist, envCount, monRest>>

\* one iteration of the loop of monitor_positions: _check_position, with
\* _send_alert when the health factor is below the threshold
CheckPosition ==
    /\ monChecking
    /\ monTodo # <<>>
    /\ LET u == Head(monTodo)
           pos == positions[u]
       IN  \E price \in Prices, answer \in EngineAnswers(metta_available) :
             LET hf == HealthFactor(pos, price)
                 metta_risk == AssessRisk(hf, answer)
                 last == IF u \in DOMAIN alerted_positions
                         THEN alerted_positions[u] ELSE 0
                 send == /\ HasPrice(price)
                         /\ ShouldAlert(hf, metta_risk.risk_level)
                         /\ ~InCooldown(last, now)
                 alert == PositionAlert(u, pos, pos.collateral_amount * price,
                                        pos.debt_amount, hf, "check", msgSeq + 1)
             IN  /\ IF send
                    THEN /\ alerted_positions' = Put(alerted_positions, u, now)
                         /\ scorerInbox' = Append(scorerInbox,
                               [alert EXCEPT !.risk_level = metta_risk.risk_level])
                         /\ msgSeq' = msgSeq + 1
                         /\ lastAlertAt' = Put(lastAlertAt, u, now)
                         /\ clearedSince' = clearedSince \ {u}
                    ELSE UNCHANGED <<alerted_positions, scorerInbox, msgSeq,
                                     lastAlertAt, clearedSince>>
                 /\ lastCheck' = [user |-> u, price |-> price, at |-> now,
                                   hf |-> IF HasPrice(price) THEN hf ELSE -1,
                                   raised |-> "none"]
    /\ monTodo' = Tail(monTodo)
    /\ monChecking' = (Tail(monTodo) # <<>>)
    /\ UNCHANGED <<positions, posOrder, last_subgraph_fetch, demo_status,
                   pendingDemo, monInbox, now, envCount, monRest>>

\* the awaited calls of _check_position that may raise: the price lookup and,
\* inside _send_alert, the send (the reasoner catches its own exceptions and
\* answers in fallback mode)
RaisePoints == {"price", "send"}

\* the positions the loop of monitor_positions still checks after the check
\* of the first one raised: the exception is caught and logged
RestAfterRaiseBug(todo) == <<>>
RestAfterRaise(todo) == Tail(todo)

\* one iteration of the loop of monitor_positions in which _check_position
\* raises: at the price lookup nothing was done yet, at the send the
\* cooldown entry was already written
CheckPositionRaises ==
    /\ monChecking
    /\ monTodo # <<>>
    /\ LET u == Head(monTodo)
           pos == positions[u]
       IN  \E point \in RaisePoints, price \in Prices,
              answer \in EngineAnswers(metta_available) :
             LET hf == HealthFactor(pos, price)
                 metta_risk == AssessRisk(hf, answer)
                 last == IF u \in DOMAIN alerted_positions
                         THEN alerted_positions[u] ELSE 0
                 send == /\ HasPrice(price)
                         /\ ShouldAlert(hf, metta_risk.risk_level)
                         /\ ~InCooldown(last, now)
             IN  /\ point = "price" => price = 0 /\ answer = NoAnswer
                 /\ point = "send" => send
                 /\ alerted_positions' =
                       IF point = "send" THEN Put(alerted_positions, u, now)
                       ELSE alerted_positions
                 /\ lastCheck' = [user |-> u, price |-> price, at |-> now,
                                   hf |-> -1, raised |-> point]
    /\ monTodo' = RestAfterRaise(monTodo)
    /\ monChecking' = (monTodo' # <<>>)
    /\ UNCHANGED <<positions, posOrder, last_subgraph_fetch, demo_status,
                   pendingDemo, monInbox, now, scorerInbox, msgSeq, lastAlertAt,
                   clearedSince, envCount, monRest>>

\* the key whose cooldown entry handle_execution_result deletes
CooldownKey(msg) == msg.position_id

\* the position table after handle_execution_result, which never writes to
\* self.positions
PositionsAfterResultBug(tbl, msg) ==
    [u \in DOMAIN tbl |->
        IF msg.success /\ tbl[u].position_id = msg.position_id
        THEN [tbl[u] EXCEPT !.debt_amount = 0]
        ELSE tbl[u]]
PositionsAfterResult(tbl, msg) == tbl

\* handle_execution_result
HandleExecutionResult ==
    /\ monInbox # <<>>
    /\ LET msg == Head(monInbox)
           key == CooldownKey(msg)
       IN  /\ demo_status' =
                 IF msg.position_id \in DOMAIN demo_status
                 THEN Put(demo_status, msg.position_id,
                          IF msg.success THEN "completed" ELSE "failed")
                 ELSE demo_status
           /\ IF msg.success /\ key \in DOMAIN alerted_positions
              THEN /\ alerted_positions' = Del(alerted_positions, key)
                   /\ clearedSince' = clearedSince \cup {key}
              ELSE UNCHANGED <<alerted_positions, clearedSince>>
           /\ positions' = PositionsAfterResult(positions, msg)
    /\ monInbox' = Tail(monInbox)
    /\ UNCHANGED <<posOrder, last_subgraph_fetch, pendingDemo, monTodo,
                   monChecking, now, scorerInbox, lastCheck, lastAlertAt, envCount,
                   msgSeq, monRest>>

\* ids of the results other senders may deliver to the monitor: a user
\* address and a position id
ResultIds == {"u2", "p1"}

\* any sender may deliver an ExecutionResult to the monitor
EnvSendResult ==
    /\ envCount < MaxEnvResults
    /\ \E pid \in ResultIds, ok \in BOOLEAN :
          monInbox' = Append(monInbox,
              ExecutionResult(pid, ok, <<>>, IF ok THEN ExecutedMessage(0) ELSE ErrorMessage,
                              0, Plan(pid, <<>>, 0, 0, 0)))
    /\ envCount' = envCount + 1
    /\ UNCHANGED <<monVars, now, scorerInbox, monHist, msgSeq, monRest>>

\* the clock advances
ClockSteps == {150, 300}
Advance ==
    /\ \E d \in ClockSteps :
          /\ now + d <= StartTime + MaxElapsed
          /\ now' = now + d
    /\ UNCHANGED <<monVars, monInbox, scorerInbox, monHist, envCount, msgSeq, monRest>>

\* an alert leaves the channel for the scorer, whose handling of it is not
\* part of the monitor's specification
AlertDelivered ==
    /\ scorerInbox # <<>>
    /\ scorerInbox' = Tail(scorerInbox)
    /\ UNCHANGED <<monVars, monInbox, now, monHist, envCount, msgSeq, monRest>>

MonitorNext ==
    \/ MonitorTick
    \/ CheckPosition
    \/ CheckPositionRaises
    \/ HandleExecutionResult

(***************************************************************************)
(* Yield Optimizer (the scorer)                                            *)
(***************************************************************************)
\* APYs are in hundredths of a percent, costs in dollars
MIN_APY_IMPROVEMENT == 50
FALLBACK_APY == 500
POSITION_SIZE == 10000
HIGH_URGENCY == 9
\* get_protocol_apy answered None
NoApy == -1
\* answers of get_protocol_apy
ApyReplies == {NoApy, 300}

\* a pool of the yield source; estimated_gas -1: the pool carries none
Pool(protocol, chain, token, apy, gas) ==
    [protocol |-> protocol, chain |-> chain, token |-> token, apy |-> apy,
     estimated_gas |-> gas]

\* the pools the yield source may know at the time of a call
PoolLists ==
    { <<>>,
      << Pool("compound", "ethereum", "WETH", 520, -1) >>,
      << Pool("kamino", "solana", "SOL", 1200, -1),
         Pool("aave-v3", "arbitrum", "WETH", 900, 40) >>,
      << Pool("morpho", "ethereum", "WETH", 1500, -1),
         Pool("spark", "ethereum", "USDC", 620, 400) >> }

\* get_all_yields(token=None, min_apy, limit) of the yield source: the pools
\* at or above min_apy, at most limit of them
GetAllYields(pools, min_apy, limit) ==
    LET above == SelectSeq(pools, LAMBDA y : y.apy >= min_apy)
    IN  SubSeq(above, 1, IF Len(above) < limit THEN Len(above) ELSE limit)

\* the strategy dictionary _find_best_yield builds for a pool
AvailableStrategy(y, current_chain, collateral_token) ==
    LET gas_cost == IF y.estimated_gas = -1 THEN 50 ELSE y.estimated_gas
        bridge_cost == IF y.chain # current_chain
                       THEN IF y.chain = "solana" THEN 15
                            ELSE IF y.chain \in {"arbitrum", "optimism", "base"} THEN 10
                            ELSE 0
                       ELSE 0
        swap_cost == IF y.token # collateral_token THEN 5 ELSE 0
    IN  [protocol |-> y.protocol, chain |-> y.chain, token |-> y.token,
         apy |-> y.apy, execution_cost |-> gas_cost + bridge_cost + swap_cost]

\* calculate_profitability without the reasoning engine: the annual profit
\* amount * (apy_diff / 100), here in 1/10000 dollar
AnnualProfit(amount, apy_diff) == amount * apy_diff

\* break_even_months = cost * 12 / annual_profit (999 when there is no
\* profit), compared with a number of months
BreakEvenBelow(cost, profit, months) ==
    profit > 0 /\ cost * 12 * 10000 < months * profit
BreakEvenAtMost(cost, profit, months) ==
    profit > 0 /\ cost * 12 * 10000 <= months * profit

IsProfitableBug(cost, profit) == BreakEvenAtMost(cost, profit, 6)
IsProfitable(cost, profit) == BreakEvenBelow(cost, profit, 6)

Min(a, b) == IF a < b THEN a ELSE b

\* the break-even points of score_strategy, in thousandths of a point
BreakevenScoreBug(cost, profit) ==
    IF BreakEvenBelow(cost, profit, 1) THEN 30000
    ELSE IF BreakEvenBelow(cost, profit, 3) THEN 20000
    ELSE IF BreakEvenBelow(cost, profit, 6) THEN 10000
    ELSE 0
BreakevenScore(cost, profit) ==
    IF BreakEvenAtMost(cost, profit, 1) THEN 30000
    ELSE IF BreakEvenAtMost(cost, profit, 3) THEN 20000
    ELSE IF BreakEvenAtMost(cost, profit, 6) THEN 10000
    ELSE 0

\* score_strategy without the reasoning engine, in thousandths of a point
ScoreStrategy(apy_improvement, cost, profit, urgency, amount) ==
    LET apy_score == Min(40000, 4 * apy_improvement)
        breakeven_score == BreakevenScore(cost, profit)
        urgency_score == urgency * 2000
        size_score == Min(10000, amount \div 5)
    IN  apy_score + breakeven_score + urgency_score + size_score

\* what _find_best_yield returns when it returns None
NoStrategy == [protocol |-> "none", chain |-> "none", token |-> "none",
               current_apy |-> 0, target_apy |-> 0, estimated_gas |-> 0]

\* the loop of select_optimal_strategy: the first strategy of the strictly
\* highest score among the profitable ones
RECURSIVE SelectLoop(_, _, _, _, _, _)
SelectLoop(available, current_apy, amount, urgency, best, best_score) ==
    IF available = <<>>
    THEN best
    ELSE LET target == Head(available)
             diff == target.apy - current_apy
             profit == AnnualProfit(amount, diff)
             score == ScoreStrategy(diff, target.execution_cost, profit, urgency, amount)
             chosen == [protocol |-> target.protocol, chain |-> target.chain,
                        token |-> target.token, current_apy |-> current_apy,
                        target_apy |-> target.apy,
                        estimated_gas |-> target.execution_cost]
         IN  IF ~IsProfitable(target.execution_cost, profit)
             THEN SelectLoop(Tail(available), current_apy, amount, urgency, best, best_score)
             ELSE IF score > best_score
             THEN SelectLoop(Tail(available), current_apy, amount, urgency, chosen, score)
             ELSE SelectLoop(Tail(available), current_apy, amount, urgency, best, best_score)

SelectOptimalStrategy(available, current_apy, amount, urgency) ==
    SelectLoop(available, current_apy, amount, urgency, NoStrategy, 0)

\* the amount and the urgency _find_best_yield hands to the selection: the
\* default position_size and 'high', whatever the alert says
ScoringInputsBug(msg) ==
    [amount |-> msg.collateral_value,
     urgency |-> IF msg.risk_level = "critical" THEN 10 ELSE HIGH_URGENCY]
ScoringInputs(msg) == [amount |-> POSITION_SIZE, urgency |-> HIGH_URGENCY]

\* _find_best_yield for an alert, given the answers of the yield source
FindBestYield(msg, apy, pools) ==
    LET current_apy == IF apy = NoApy THEN FALLBACK_APY ELSE apy
        top_yields == GetAllYields(pools, current_apy + MIN_APY_IMPROVEMENT, 15)
        available == [i \in DOMAIN top_yields |->
                        AvailableStrategy(top_yields[i], msg.chain, msg.collateral_token)]
    IN  IF top_yields = <<>>
        THEN NoStrategy
        ELSE SelectOptimalStrategy(available, current_apy, ScoringInputs(msg).amount,
                                   ScoringInputs(msg).urgency)

\* msg.collateral_value / 3800, in thousandths of a token
CollateralAmount(collateral_value) == (collateral_value * 1000) \div 3800

\* the message handle_position_alert builds; 'id' is history: the id of the
\* alert it answers
OptimizationStrategy(msg, strategy) ==
    [position_id |-> msg.position_id, user_address |-> msg.user_address,
     current_protocol |-> msg.protocol, current_chain |-> msg.chain,
     target_protocol |-> strategy.protocol, target_chain |-> strategy.chain,
     collateral_token |-> msg.collateral_token, debt_token |-> msg.debt_token,
     collateral_amount |-> CollateralAmount(msg.collateral_value),
     debt_amount |-> msg.debt_value,
     current_apy |-> strategy.current_apy, target_apy |-> strategy.target_apy,
     estimated_gas_cost |-> strategy.estimated_gas, id |-> msg.id]

\* what no action of the scorer changes
scorerRest == <<monVars, monInbox, now, monHist, execVars, execHist,
                routes_calculated, planLog, planFailed, planCalls, callVars,
                envCount, msgSeq>>

\* the guard of handle_position_alert
AlreadyProcessed(pid) == pid \in processed_positions

\* handle_position_alert for an alert of a processed position: it returns
HandleAlertSkip ==
    /\ scorerInbox # <<>>
    /\ AlreadyProcessed(Head(scorerInbox).position_id)
    /\ scorerInbox' = Tail(scorerInbox)
    /\ UNCHANGED <<scorerVars, plannerInbox, stratLog, noStrategy, scorerRest>>

\* handle_position_alert up to its wait for _find_best_yield
HandleAlertAccept ==
    /\ scorerInbox # <<>>
    /\ ~AlreadyProcessed(Head(scorerInbox).position_id)
    /\ scorerInbox' = Tail(scorerInbox)
    /\ scorerRuns' = scorerRuns \cup {Head(scorerInbox)}
    /\ UNCHANGED <<processed_positions, optimizations_sent, plannerInbox, stratLog,
                   noStrategy, scorerRest>>

\* whether handle_position_alert sends what _find_best_yield returned
HasStrategyBug(strategy) == TRUE
HasStrategy(strategy) == strategy # NoStrategy

\* handle_position_alert from the return of _find_best_yield on: with a
\* strategy the position is marked processed and the strategy is sent
HandleAlertDecide ==
    \E msg \in scorerRuns, apy \in ApyReplies, pools \in PoolLists :
        LET strategy == FindBestYield(msg, apy, pools)
        IN  /\ scorerRuns' = scorerRuns \ {msg}
            /\ IF HasStrategy(strategy)
               THEN /\ processed_positions' = processed_positions \cup {msg.position_id}
                    /\ plannerInbox' = Append(plannerInbox, OptimizationStrategy(msg, strategy))
                    /\ optimizations_sent' = optimizations_sent + 1
                    /\ stratLog' = stratLog \cup {OptimizationStrategy(msg, strategy)}
               ELSE UNCHANGED <<processed_positions, plannerInbox,
                                optimizations_sent, stratLog>>
            /\ noStrategy' = IF strategy = NoStrategy
                             THEN noStrategy \cup {msg.id} ELSE noStrategy
            /\ UNCHANGED <<scorerInbox, scorerRest>>

ScorerNext ==
    \/ HandleAlertSkip
    \/ HandleAlertAccept
    \/ HandleAlertDecide

\* candidate strategies a caller may hand to select_optimal_strategy
Candidate(protocol, apy, cost) ==
    [protocol |-> protocol, chain |-> "ethereum", token |-> "WETH", apy |-> apy,
     execution_cost |-> cost]

Candidates ==
    { Candidate("compound", 540, 1), Candidate("spark", 600, 50),
      Candidate("morpho", 1500, 65), Candidate("euler", 250, 10),
      Candidate("fluid", 500, 0), Candidate("aave-v3", 1500, 100),
      Candidate("kamino", 910, 65) }

\* the candidate lists of a call, up to MaxCandidates long
CandidateLists == UNION {[1..n -> Candidates] : n \in 0..MaxCandidates}

\* the variables of the four agents and of their environment
agentVars == <<monVars, monInbox, now, scorerInbox, execVars, monHist, execHist,
               scorerVars, plannerVars, flowHist, envCount, msgSeq>>
NoCall == [current_apy |-> 0, amount |-> 0, urgency |-> 0, available |-> << >>,
           result |-> NoStrategy, keys |-> {}]

\* the keys of the dictionary select_optimal_strategy returns
StrategyKeys ==
    { "source_protocol", "source_chain", "target_protocol", "target_chain",
      "target_token", "current_apy", "target_apy", "apy_improvement",
      "annual_profit", "execution_cost", "break_even_months", "strategy_score",
      "execution_method", "is_profitable", "confidence", "reasoning" }

\* no call yet
NoScoreCall == [apy_improvement |-> 0, cost |-> 0, profit |-> 0, urgency |-> 0,
                amount |-> 0, result |-> -1]
\* select_optimal_strategy called once, on any candidate list
SelectCall ==
    /\ selectCall = NoCall /\ scoreCall = NoScoreCall
    /\ \E current_apy \in {300, 500, 520}, amount \in {POSITION_SIZE, 2000, 100000},
          urgency \in {3, HIGH_URGENCY, 30}, available \in CandidateLists :
          LET best == SelectOptimalStrategy(available, current_apy, amount, urgency)
          IN  selectCall' = [current_apy |-> current_apy, amount |-> amount,
                             urgency |-> urgency, available |-> available,
                             result |-> best,
                             keys |-> IF best = NoStrategy THEN {} ELSE StrategyKeys]
    /\ UNCHANGED <<agentVars, methodCall, riskCall, scoreCall, metta_available,
                   refreshCall, yieldCall>>

\* score_strategy called once instead; break_even_months is given by the cost and
\* the annual profit (in 1/10000 dollar) it is the quotient of
ScoreCall ==
    /\ selectCall = NoCall /\ scoreCall = NoScoreCall
    /\ \E apy_improvement \in {-220, 0, 390, 1200, 12000}, cost \in {0, 65, 100},
          dollars \in {0, 100, 200, 400, 1200, 3900}, urgency \in {0, 3, HIGH_URGENCY, 10, 30},
          amount \in {2000, 50000, 100000} :
          scoreCall' = [apy_improvement |-> apy_improvement, cost |-> cost,
                        profit |-> dollars * 10000, urgency |-> urgency,
                        amount |-> amount,
                        result |-> ScoreStrategy(apy_improvement, cost, dollars * 10000,
                                                 urgency, amount)]
    /\ UNCHANGED <<agentVars, selectCall, methodCall, riskCall, metta_available,
                   refreshCall, yieldCall>>

\* chain names select_execution_method may be given
ChainNames ==
    { "ethereum", "arbitrum", "optimism", "base", "polygon", "avalanche", "solana",
      "Solana", "pyusd", "solana-pyusd", "PYUSD-mainnet" }
\* str.lower() on these names
Lower(chain) ==
    IF chain = "Solana" THEN "solana"
    ELSE IF chain = "PYUSD-mainnet" THEN "pyusd-mainnet"
    ELSE chain
\* "pyusd" in name, for a name in lower case
ContainsPyusd(name) == name \in {"pyusd", "solana-pyusd", "pyusd-mainnet"}
FusionChains == {"ethereum", "arbitrum", "optimism", "base"}

\* select_execution_method without the reasoning engine
SelectExecutionMethodBug(from_chain, to_chain) ==
    IF ContainsPyusd(Lower(from_chain)) \/ ContainsPyusd(Lower(to_chain))
    THEN "layerzero-pyusd"
    ELSE IF from_chain = to_chain THEN "direct-swap"
    ELSE IF from_chain = "solana" \/ to_chain = "solana" THEN "fusion-cross-chain"
    ELSE IF from_chain \in FusionChains /\ to_chain \in FusionChains
    THEN "fusion-cross-chain"
    ELSE "standard-bridge"
SelectExecutionMethod(from_chain, to_chain) ==
    IF from_chain = to_chain THEN "direct-swap"
    ELSE IF ContainsPyusd(Lower(from_chain)) \/ ContainsPyusd(Lower(to_chain))
    THEN "layerzero-pyusd"
    ELSE IF from_chain = "solana" \/ to_chain = "solana" THEN "fusion-cross-chain"
    ELSE IF from_chain \in FusionChains /\ to_chain \in FusionChains
    THEN "fusion-cross-chain"
    ELSE "standard-bridge"

\* no call of select_execution_method yet, no call of assess_risk yet
NoMethodCall == [from_chain |-> "none", to_chain |-> "none", result |-> "none"]
\* select_execution_method called on any two chains
MethodCall ==
    /\ \E from_chain \in ChainNames, to_chain \in ChainNames :
          methodCall' = [from_chain |-> from_chain, to_chain |-> to_chain,
                         result |-> SelectExecutionMethod(from_chain, to_chain)]
    /\ UNCHANGED <<agentVars, selectCall, riskCall, scoreCall, metta_available,
                   refreshCall, yieldCall>>
NoRiskCall == [health_factor |-> -1, answer |-> NoAnswer, keys |-> {},
               result |-> [risk_level |-> "none", using_metta |-> FALSE,
                           urgency_score |-> -1]]
\* health factors assess_risk is called with: every hundredth up to MaxHf,
\* and the health factor of a position without debt
MaxHf == 300
HealthFactors == 0..MaxHf \cup {NO_DEBT_HF}
\* assess_risk called once, the engine answering or not; 'answer' is
\* history: what the engine said
RiskCall ==
    /\ riskCall = NoRiskCall
    /\ \E hf \in HealthFactors, answer \in EngineAnswers(metta_available),
          score \in EngineScores :
          riskCall' = [health_factor |-> hf, answer |-> answer, keys |-> RiskKeys,
                       result |-> [risk_level |-> AssessRisk(hf, answer).risk_level,
                                   using_metta |-> AssessRisk(hf, answer).using_metta,
                                   urgency_score |-> AssessUrgency(hf, answer, score)]]
    /\ UNCHANGED <<agentVars, selectCall, methodCall, scoreCall, metta_available,
                   refreshCall, yieldCall>>

\* seconds between two runs of monitor_positions
TickGaps == {10, 30}

\* monitor_positions up to its loop over the positions, run on a table of
\* its own: when the fetch is due its outcome is merged into the table of
\* the runs before; 'todo' is what the loop then iterates.  'replies' keeps
\* the lists that were returned (none: the empty list), 'outcomes' how
\* each fetch ended.
NoRefresh == [replies |-> <<>>, outcomes |-> <<>>, positions |-> EmptyMap,
              order |-> <<>>, last |-> 0, at |-> StartTime, todo |-> <<>>]
RefreshCall ==
    /\ Len(refreshCall.replies) < MaxRefreshes
    /\ \E gap \in TickGaps, out \in FetchOutcomes :
          LET t == refreshCall.at + gap
              due == FetchDue(refreshCall.last, t)
              r == IF due
                   THEN Refresh(refreshCall.positions, refreshCall.order,
                                refreshCall.last, t, out)
                   ELSE [tbl |-> refreshCall.positions, order |-> refreshCall.order,
                         last |-> refreshCall.last]
          IN  /\ ~due => ~out.ok
              /\ refreshCall' =
                    [replies |-> Append(refreshCall.replies,
                                        IF due /\ out.ok THEN out.list ELSE <<>>),
                     outcomes |-> Append(refreshCall.outcomes,
                                         IF ~due THEN "not_due"
                                         ELSE IF out.ok THEN "returned" ELSE "raised"),
                     positions |-> r.tbl, order |-> r.order, last |-> r.last,
                     at |-> t, todo |-> r.order]
    /\ UNCHANGED <<agentVars, selectCall, methodCall, riskCall, scoreCall,
                   metta_available, yieldCall>>

\* alerts of one position of one protocol that differ in what the monitor
\* measured, and in the chain and the collateral token
AlertVariants ==
    { [user_address |-> "u1", position_id |-> "p1", protocol |-> "aave-v3",
       chain |-> c, health_factor |-> hf, collateral_value |-> cv,
       debt_value |-> dv, collateral_token |-> tok, debt_token |-> "USDC",
       risk_level |-> risk, via |-> "sender", id |-> 0] :
        c \in {"ethereum", "arbitrum"}, hf \in {96, 141}, cv \in {7600, 28308},
        dv \in {4500, 25000}, tok \in {"WETH", "USDC"},
        risk \in {"critical", "high"} }

\* what handle_position_alert hands to _find_best_yield for an alert, and
\* what _find_best_yield hands to the selection as amount and urgency
YieldArgs(msg) ==
    [collateral_token |-> msg.collateral_token, debt_token |-> msg.debt_token,
     current_protocol |-> msg.protocol, current_chain |-> msg.chain,
     amount |-> ScoringInputs(msg).amount, urgency |-> ScoringInputs(msg).urgency]

\* _find_best_yield called for two alerts with the same answers of the yield
\* source
NoYieldCall == [alerts |-> <<>>, apy |-> NoApy, pools |-> <<>>, args |-> <<>>,
                targets |-> <<>>]
YieldCall ==
    /\ yieldCall = NoYieldCall
    /\ \E a1 \in AlertVariants, a2 \in AlertVariants, apy \in ApyReplies,
          pools \in PoolLists :
          yieldCall' = [alerts |-> <<a1, a2>>, apy |-> apy, pools |-> pools,
                        args |-> <<YieldArgs(a1), YieldArgs(a2)>>,
                        targets |-> <<FindBestYield(a1, apy, pools),
                                      FindBestYield(a2, apy, pools)>>]
    /\ UNCHANGED <<agentVars, selectCall, methodCall, riskCall, scoreCall,
                   metta_available, refreshCall>>

\* alerts any sender may deliver to the scorer
EnvAlerts ==
    { [user_address |-> "u1", position_id |-> "p1", protocol |-> "aave-v3",
       chain |-> "ethereum", health_factor |-> 141, collateral_value |-> 7600,
       debt_value |-> 4500, collateral_token |-> "WETH", debt_token |-> "USDC",
       risk_level |-> "high", via |-> "sender", id |-> 0],
      [user_address |-> "u2", position_id |-> "u2", protocol |-> "compound",
       chain |-> "ethereum", health_factor |-> 99900, collateral_value |-> 3800,
       debt_value |-> 0, collateral_token |-> "USDC", debt_token |-> "USDT",
       risk_level |-> "moderate", via |-> "sender", id |-> 0] }

EnvSendAlert ==
    /\ envCount < MaxEnvAlerts
    /\ \E a \in EnvAlerts :
          scorerInbox' = Append(scorerInbox, [a EXCEPT !.id = msgSeq + 1])
    /\ msgSeq' = msgSeq + 1
    /\ envCount' = envCount + 1
    /\ UNCHANGED <<monVars, monInbox, now, monHist, execVars, execHist, scorerVars,
                   plannerVars, flowHist, callVars>>

(***************************************************************************)
(* Swap Optimizer (the planner)                                            *)
(***************************************************************************)
\* tokens _get_1inch_swap_route knows an address of
OneInchTokens == {"WETH", "USDC", "USDT", "WBTC", "DAI"}

\* tokens _get_fusion_plus_route knows an address of, per chain
FusionTokens(chain) ==
    CASE chain \in {"ethereum", "arbitrum", "optimism", "base"} -> {"USDC", "WETH", "USDT"}
      [] chain = "polygon" -> {"USDC", "WETH"}
      [] chain = "solana" -> {"USDC", "SOL"}
      [] OTHER -> {}

\* whether _get_1inch_swap_route returns a route, given that the API answered
SwapRoute(strategy, answered) ==
    /\ strategy.collateral_token \in OneInchTokens
    /\ strategy.debt_token \in OneInchTokens
    /\ answered

\* whether _get_fusion_plus_route returns a successful quote, given that the
\* bridge module is there and answered one
FusionRoute(strategy, answered) ==
    /\ strategy.debt_token \in FusionTokens(strategy.current_chain)
    /\ strategy.debt_token \in FusionTokens(strategy.target_chain)
    /\ answered

\* dstAmount of a 1inch quote that answered, in hundred-thousandths of a
\* token (0: the answer carries no dstAmount)
DstAmounts == {0, 195000}

\* the steps _create_execution_plan appends; gas in thousandths of a dollar
\* (the gas cost of a 1inch quote is below one thousandth), amounts as in the
\* strategy, expected_output in hundred-thousandths of a token.
\* The repay_debt step: only for a strategy with debt
RepayStepsBug(strategy) ==
    << Step("repay_debt", 5, FALSE) @@
       [protocol |-> strategy.current_protocol, chain |-> strategy.current_chain,
        asset |-> strategy.debt_token, amount |-> strategy.debt_amount] >>
RepaySteps(strategy) ==
    IF strategy.debt_amount > 0
    THEN << Step("repay_debt", 5, FALSE) @@
            [protocol |-> strategy.current_protocol, chain |-> strategy.current_chain,
             asset |-> strategy.debt_token, amount |-> strategy.debt_amount] >>
    ELSE << >>

WithdrawStep(strategy) ==
    Step("withdraw_collateral", 5, FALSE) @@
    [protocol |-> strategy.current_protocol, chain |-> strategy.current_chain,
     asset |-> strategy.collateral_token, amount |-> strategy.collateral_amount]

\* the swap step: from the quote, or the 1% slippage estimate without one
SwapStepBug(strategy, swapOk, toAmount) ==
    Step("swap", IF SwapRoute(strategy, swapOk) THEN 0 ELSE 10, FALSE) @@
    [from_token |-> strategy.collateral_token, to_token |-> strategy.debt_token,
     amount |-> strategy.collateral_amount,
     expected_output |-> IF SwapRoute(strategy, swapOk) THEN toAmount
                         ELSE 100 * strategy.collateral_amount,
     route |-> IF SwapRoute(strategy, swapOk) THEN "1inch_v6" ELSE "fallback_estimate"]
SwapStep(strategy, swapOk, toAmount) ==
    IF SwapRoute(strategy, swapOk)
    THEN Step("swap", 0, FALSE) @@
         [from_token |-> strategy.collateral_token, to_token |-> strategy.debt_token,
          amount |-> strategy.collateral_amount, expected_output |-> toAmount,
          route |-> "1inch_v6"]
    ELSE Step("swap", 10, FALSE) @@
         [from_token |-> strategy.collateral_token, to_token |-> strategy.debt_token,
          amount |-> strategy.collateral_amount,
          expected_output |-> 99 * strategy.collateral_amount,
          route |-> "fallback_estimate"]

\* the cross-chain step: none on one chain, else Fusion+ with a quote and the
\* traditional bridge without (the fields copied from the quote are left out)
CrossChainStepsBug(strategy, fusionOk) ==
    IF strategy.target_chain # strategy.current_chain
    THEN << Step("bridge", 5000, FALSE) @@
            [from_chain |-> strategy.current_chain, to_chain |-> strategy.target_chain,
             asset |-> strategy.debt_token, amount |-> strategy.collateral_amount,
             bridge_protocol |-> "stargate"] >>
    ELSE << >>
CrossChainSteps(strategy, fusionOk) ==
    IF strategy.target_chain # strategy.current_chain
    THEN IF FusionRoute(strategy, fusionOk)
         THEN << Step("fusion_plus_cross_chain", 0, FALSE) @@
                 [from_chain |-> strategy.current_chain,
                  to_chain |-> strategy.target_chain,
                  asset |-> strategy.debt_token,
                  amount |-> strategy.collateral_amount, fusion_plus |-> TRUE] >>
         ELSE << Step("bridge", 5000, FALSE) @@
                 [from_chain |-> strategy.current_chain,
                  to_chain |-> strategy.target_chain,
                  asset |-> strategy.debt_token,
                  amount |-> strategy.collateral_amount,
                  bridge_protocol |-> "stargate"] >>
    ELSE << >>

SupplyStep(strategy) ==
    Step("supply_collateral", 5, FALSE) @@
    [protocol |-> strategy.target_protocol, chain |-> strategy.target_chain,
     asset |-> strategy.collateral_token, amount |-> strategy.collateral_amount]

\* the steps in the order _create_execution_plan appends them
PlanStepsBug(strategy, swapOk, fusionOk, toAmount) ==
    << Step("withdraw_collateral", 5, FALSE), Step("supply_collateral", 5, FALSE),
       Step("swap", 10, FALSE) >>
PlanSteps(strategy, swapOk, fusionOk, toAmount) ==
    RepaySteps(strategy)
    \o << WithdrawStep(strategy) >>
    \o << SwapStep(strategy, swapOk, toAmount) >>
    \o CrossChainSteps(strategy, fusionOk)
    \o << SupplyStep(strategy) >>

\* total_gas of _create_execution_plan
RECURSIVE TotalGasBug(_)
TotalGasBug(steps) ==
    IF steps = <<>> THEN 0
    ELSE IF Head(steps).type = "bridge" THEN TotalGasBug(Tail(steps))
    ELSE Head(steps).estimated_gas + TotalGasBug(Tail(steps))
RECURSIVE TotalGas(_)
TotalGas(steps) ==
    IF steps = <<>> THEN 0 ELSE Head(steps).estimated_gas + TotalGas(Tail(steps))

\* the plan _create_execution_plan returns
CreateExecutionPlanBug(strategy, swapOk, fusionOk, toAmount) ==
    LET steps == PlanSteps(strategy, swapOk, fusionOk, toAmount)
    IN  Plan(strategy.user_address, steps, TotalGas(steps), Len(steps) * 30, strategy.id)
CreateExecutionPlan(strategy, swapOk, fusionOk, toAmount) ==
    LET steps == PlanSteps(strategy, swapOk, fusionOk, toAmount)
    IN  Plan(strategy.position_id, steps, TotalGas(steps), Len(steps) * 30, strategy.id)

\* whether _create_execution_plan returns a plan: not when it raised
PlanBuiltBug(raised) == TRUE
PlanBuilt(raised) == ~raised

\* handle_optimization_strategy: a plan is built and sent to the executor;
\* when building it raises, the failure is logged
HandleOptimizationStrategy ==
    /\ plannerInbox # <<>>
    /\ \E swapOk \in BOOLEAN, fusionOk \in BOOLEAN, raised \in BOOLEAN,
          toAmount \in DstAmounts :
          LET msg == Head(plannerInbox)
              plan == CreateExecutionPlan(msg, swapOk, fusionOk, toAmount)
              crossChain == msg.target_chain # msg.current_chain
          IN  /\ planCalls' = planCalls \cup
                    {[strategy |-> msg, swap_asked |-> TRUE,
                      swap_route |-> ~raised /\ SwapRoute(msg, swapOk),
                      fusion_asked |-> crossChain,
                      fusion_route |-> ~raised /\ crossChain /\ FusionRoute(msg, fusionOk),
                      raised |-> raised]}
              /\ IF PlanBuilt(raised)
                 THEN /\ execInbox' = Append(execInbox, plan)
                      /\ routes_calculated' = routes_calculated + 1
                      /\ planLog' = planLog \cup {plan}
                      /\ planFailed' = IF raised THEN planFailed \cup {msg.id}
                                       ELSE planFailed
                 ELSE /\ planFailed' = planFailed \cup {msg.id}
                      /\ UNCHANGED <<execInbox, routes_calculated, planLog>>
    /\ plannerInbox' = Tail(plannerInbox)
    /\ UNCHANGED <<monVars, monInbox, now, scorerInbox, monHist, scorerVars,
                   executed_positions, executions_completed, executions_failed,
                   execRuns, execHist, stratLog, noStrategy, callVars, envCount,
                   msgSeq>>

PlannerNext == HandleOptimizationStrategy

\* strategies any sender may deliver to the planner
EnvStrategy(pid, ctoken, dtoken, target_chain, camount, damount) ==
    [position_id |-> pid, user_address |-> "u1",
     current_protocol |-> "aave-v3", current_chain |-> "ethereum",
     target_protocol |-> "morpho", target_chain |-> target_chain,
     collateral_token |-> ctoken, debt_token |-> dtoken,
     collateral_amount |-> camount, debt_amount |-> damount,
     current_apy |-> 500, target_apy |-> 1500, estimated_gas_cost |-> 50, id |-> 0]

EnvStrategies ==
    { EnvStrategy("p1", "WETH", "USDC", "ethereum", 2000, 4500),
      EnvStrategy("p1", "USDC", "USDC", "arbitrum", 1000, 0),
      EnvStrategy("u1", "WETH", "USDT", "solana", 2000, 4500),
      EnvStrategy("u1", "stETH", "USDC", "base", 1000, 0) }

EnvSendStrategy ==
    /\ envCount < MaxEnvStrategies
    /\ \E st \in EnvStrategies :
          plannerInbox' = Append(plannerInbox, [st EXCEPT !.id = msgSeq + 1])
    /\ msgSeq' = msgSeq + 1
    /\ envCount' = envCount + 1
    /\ UNCHANGED <<monVars, monInbox, now, scorerInbox, monHist, execVars,
                   execHist, scorerVars, routes_calculated, flowHist, callVars>>

(***************************************************************************)
(* Specifications                                                          *)
(***************************************************************************)
InitAgents ==
    /\ positions = EmptyMap
    /\ posOrder = <<>>
    /\ alerted_positions = EmptyMap
    /\ last_subgraph_fetch = 0
    /\ demo_status = EmptyMap
    /\ pendingDemo = NoAlert
    /\ monTodo = <<>>
    /\ monChecking = FALSE
    /\ now = StartTime
    /\ scorerInbox = <<>>
    /\ lastCheck = [user |-> "none", price |-> 0, at |-> 0, hf |-> -1,
                    raised |-> "none"]
    /\ lastAlertAt = EmptyMap
    /\ clearedSince = {}
    /\ envCount = 0
    /\ processed_positions = {}
    /\ optimizations_sent = 0
    /\ scorerRuns = {}
    /\ plannerInbox = <<>>
    /\ routes_calculated = 0
    /\ stratLog = {}
    /\ planLog = {}
    /\ noStrategy = {}
    /\ planFailed = {}
    /\ planCalls = {}
    /\ selectCall = NoCall
    /\ methodCall = NoMethodCall
    /\ riskCall = NoRiskCall
    /\ scoreCall = NoScoreCall
    /\ refreshCall = NoRefresh
    /\ yieldCall = NoYieldCall
    /\ execInbox = <<>>
    /\ executed_positions = {}
    /\ executions_completed = 0
    /\ executions_failed = 0
    /\ execRuns = {}
    /\ monInbox = <<>>
    /\ resultLog = <<>>
    /\ dropLog = {}
    /\ msgSeq = 0

\* the agents started where the reasoning engine is not installed, and where
\* it is
Init == InitAgents /\ metta_available = FALSE
InitEngine == InitAgents /\ metta_available = TRUE

\* the executor fed by arbitrary senders
NextExec == EnvSendPlan \/ ExecutorNext
SpecExec == Init /\ [][NextExec]_vars

\* the executor with the event loop resuming every handler that can go on
SpecExecFair == SpecExec /\ WF_vars(ExecutorNext)

\* the monitor with its HTTP requests, its clock and results from any sender
NextMon ==
    \/ MonitorNext
    \/ DemoTrigger
    \/ AddPosition
    \/ EnvSendResult
    \/ Advance
    \/ AlertDelivered
SpecMon == Init /\ [][NextMon]_vars

\* refreshes of a position table
NextRefresh == RefreshCall
SpecRefresh == Init /\ [][NextRefresh]_vars

\* the yield search called for pairs of alerts
NextYield == YieldCall
SpecYield == Init /\ [][NextYield]_vars

\* the reasoner, its engine loaded, asked for a risk assessment
NextRisk == RiskCall
SpecRisk == InitEngine /\ [][NextRisk]_vars

\* the monitor started with the reasoning engine, with its clock and results
\* from any sender
NextEngine ==
    \/ MonitorNext
    \/ EnvSendResult
    \/ Advance
    \/ AlertDelivered
SpecEngine == InitEngine /\ [][NextEngine]_vars

\* the scorer, the planner, the executor and the monitor's result handler,
\* with alerts from any sender
NextFlow ==
    \/ EnvSendAlert
    \/ ScorerNext
    \/ PlannerNext
    \/ ExecutorNext
    \/ HandleExecutionResult
SpecFlow == Init /\ [][NextFlow]_vars

\* the same agents with every agent's event loop taking the next message, or
\* resuming the handler that waits, whenever it can
SpecFlowFair ==
    /\ SpecFlow
    /\ WF_vars(ScorerNext)
    /\ WF_vars(PlannerNext)
    /\ WF_vars(ExecutorNext)
    /\ WF_vars(HandleExecutionResult)

\* the planner and the executor, with strategies from any sender
NextPlan ==
    \/ EnvSendStrategy
    \/ PlannerNext
    \/ ExecutorNext
SpecPlan == Init /\ [][NextPlan]_vars

\* the reasoner's selection called on its own
NextSelect == SelectCall \/ ScoreCall
SpecSelect == Init /\ [][NextSelect]_vars

\* the reasoner asked for an execution method
NextMethod == MethodCall
SpecMethod == Init /\ [][NextMethod]_vars

\* the four agents together with every environment
Next ==
    \/ NextExec
    \/ NextMon
    \/ NextEngine
    \/ NextFlow
    \/ NextPlan
    \/ NextSelect
    \/ NextMethod
    \/ NextRisk
    \/ NextRefresh
    \/ NextYield
Spec == Init /\ [][Next]_vars

(***************************************************************************)
(* Properties of the Cross-Chain Executor                                  *)
(***************************************************************************)
ResultsFor(pid) == {k \in DOMAIN resultLog : resultLog[k].position_id = pid}
FailedResults == {k \in DOMAIN resultLog : ~resultLog[k].success}
GoodResults == {k \in DOMAIN resultLog : resultLog[k].success}
RunsFor(pid) == {r \in execRuns : r.plan.position_id = pid}
\* a run that has not sent its result yet
Unfinished(r) == r.pc \in {"run", "return"}
\* index of the first raising step of a step list, 0 when none raises
FirstRaise(steps) ==
    IF \E k \in DOMAIN steps : Raises(steps[k])
    THEN CHOOSE k \in DOMAIN steps :
            /\ Raises(steps[k])
            /\ \A j \in 1..(k - 1) : ~Raises(steps[j])
    ELSE 0

\* C1: two plans with one position_id, the second arriving before the first
\* has finished, give one ExecutionResult for that position_id: the position
\* is in executed_positions from before the first step on, the second plan is
\* skipped and runs no step, and once the executor is quiet every position it
\* received a plan for has exactly one result.
C1_OneResultPerPosition ==
    /\ \A pid \in PosIds :
          /\ Cardinality(ResultsFor(pid)) <= 1
          /\ Cardinality(RunsFor(pid)) <= 1
          /\ Cardinality(ResultsFor(pid))
               + Cardinality({r \in RunsFor(pid) : Unfinished(r)})
                = IF pid \in executed_positions THEN 1 ELSE 0
    /\ \A r \in execRuns : r.plan.position_id \in executed_positions
    /\ \A d \in dropLog :
          /\ \A r \in execRuns : r.plan.id # d.plan.id
          /\ \A k \in DOMAIN resultLog : resultLog[k].plan.id # d.plan.id

\* C1 witness: a plan was skipped while the first plan of its position was
\* suspended in a step, with steps still to run and no result sent yet
C1_Witness ==
    \E d \in dropLog : \E r \in execRuns :
        /\ r.plan.position_id = d.plan.position_id
        /\ ~d.done
        /\ r.pc = "run"
        /\ r.i > 1
        /\ r.i <= Len(r.plan.steps)

\* C2: an accepted position stays in executed_positions for good, and the
\* handling of a later plan for it (the head of the inbox is consumed while
\* its position is marked) starts no run, sends no result and leaves both
\* counters alone.
C2_NeverIdleAgain ==
    [][ /\ executed_positions \subseteq executed_positions'
        /\ ( /\ execInbox # <<>>
             /\ Head(execInbox).position_id \in executed_positions
             /\ execInbox' = Tail(execInbox) )
           => /\ execRuns' = execRuns
              /\ monInbox' = monInbox
              /\ resultLog' = resultLog
              /\ executions_completed' = executions_completed
              /\ executions_failed' = executions_failed
              /\ executed_positions' = executed_positions ]_vars

\* C2 witness: a plan was skipped after its position's execution had ended
\* in failure, while another position's execution ended in success
C2_Witness ==
    /\ \E d \in dropLog :
          d.done /\ \E k \in FailedResults :
                      resultLog[k].position_id = d.plan.position_id
    /\ GoodResults # {}
    /\ execRuns = {}

\* C9: when a step raises, no later step runs, the result is a failure with
\* no transaction hash, no gas and the error message, the position stays
\* marked, and executions_failed counts exactly the failures reported.
C9_FailureResult ==
    /\ \A r \in execRuns :
          LET f == FirstRaise(r.plan.steps)
          IN  /\ f # 0 => r.i <= f
              /\ (f # 0 /\ r.pc # "run") =>
                    /\ r.i = f
                    /\ r.result = [success |-> FALSE, tx_hashes |-> <<>>,
                                   message |-> ErrorMessage, gas_cost |-> 0]
    /\ \A k \in DOMAIN resultLog :
          LET res == resultLog[k]
          IN  /\ res.position_id \in executed_positions
              /\ FirstRaise(res.plan.steps) # 0 =>
                    /\ ~res.success
                    /\ res.tx_hashes = <<>>
                    /\ res.actual_gas_cost = 0
                    /\ res.message = ErrorMessage
              /\ ~res.success => FirstRaise(res.plan.steps) # 0
    /\ executions_failed + Cardinality({r \in execRuns : r.pc = "sent" /\ ~r.result.success})
         = Cardinality(FailedResults)

\* C9 witness: a plan failed at a step after earlier steps had run, its
\* failure was reported and counted
C9_Witness ==
    /\ executions_failed >= 1
    /\ execRuns = {}
    /\ \E k \in FailedResults : FirstRaise(resultLog[k].plan.steps) > 1

(***************************************************************************)
(* Properties of the Position Monitor                                      *)
(***************************************************************************)
Users == {"u1", "u2"}

\* a step that is one _check_position (of the user at the head of monTodo)
\* that runs to its end
CheckStep ==
    /\ monTodo # <<>>
    /\ monTodo' = Tail(monTodo)
    /\ positions' = positions
    /\ lastCheck'.raised = "none"

\* a step that sends one more alert to the scorer
AlertSent == Len(scorerInbox') = Len(scorerInbox) + 1

\* the cooldown timestamp recorded for a user, 0 when there is none
LastAlert(u) == IF u \in DOMAIN alerted_positions THEN alerted_positions[u] ELSE 0

\* a step that handles one ExecutionResult
ResultStep ==
    /\ monInbox # <<>>
    /\ monInbox' = Tail(monInbox)

\* C3 (as stated): whatever messages the monitor receives, an alert is never
\* sent for a position less than 300 s after the previous alert for it.
C3_Original ==
    [][\A u \in Users :
         (CheckStep /\ Head(monTodo) = u /\ AlertSent /\ u \in DOMAIN lastAlertAt)
            => now - lastAlertAt[u] >= 300]_vars

\* C3 (amended): an alert is sent for a position less than 300 s after the
\* previous alert for it only if, in between, a successful ExecutionResult
\* whose position_id is the key of the position's cooldown entry (its user
\* address) was handled; otherwise the second breach is suppressed.
C3_OneAlertPerCooldown ==
    [][\A u \in Users :
         (/\ CheckStep /\ Head(monTodo) = u /\ AlertSent
          /\ u \in DOMAIN lastAlertAt
          /\ now - lastAlertAt[u] < 300)
            => u \in clearedSince]_vars

\* a breach of a position was suppressed: it was checked with a price that
\* puts it under the threshold, less than 300 s after its alert, and its
\* cooldown entry still holds the time of that alert
C3_Witness ==
    \E u \in DOMAIN alerted_positions :
        /\ lastCheck.user = u
        /\ lastCheck.price # 0
        /\ IsRisky(HealthFactor(positions[u], lastCheck.price))
        /\ lastCheck.at > alerted_positions[u]
        /\ lastCheck.at - alerted_positions[u] < 300
        /\ u \notin clearedSince
        /\ lastAlertAt[u] = alerted_positions[u]

\* C4: a check sends an alert exactly when the price is available, the
\* health factor computed from it is below 1.5 and at least 300 s have
\* passed since the recorded alert; sending sets the position's cooldown
\* timestamp to the current time, not sending leaves the timestamps alone.
C4_AlertIffQualifies ==
    [][CheckStep =>
         LET u == Head(monTodo)
             pos == positions[u]
             price == lastCheck'.price
             qualifies == /\ price # 0
                          /\ pos.debt_amount > 0
                          /\ pos.collateral_amount * price * 85 < 150 * pos.debt_amount
                          /\ now - LastAlert(u) >= 300
         IN  /\ AlertSent <=> qualifies
             /\ AlertSent =>
                  /\ alerted_positions' = Put(alerted_positions, u, now)
                  /\ scorerInbox'[Len(scorerInbox')].user_address = u
                  /\ scorerInbox'[Len(scorerInbox')].position_id = pos.position_id
             /\ ~AlertSent => alerted_positions' = alerted_positions]_vars

\* an alert was sent for a position whose previous alert is 300 s old: its
\* cooldown entry holds the current time
C4_Witness ==
    /\ now >= StartTime + 300
    /\ lastCheck.at = now
    /\ lastCheck.user \in DOMAIN alerted_positions
    /\ alerted_positions[lastCheck.user] = now
    /\ scorerInbox # <<>>
    /\ scorerInbox[Len(scorerInbox)].user_address = lastCheck.user
    /\ scorerInbox[Len(scorerInbox)].via = "check"
    /\ Cardinality({i \in DOMAIN scorerInbox :
                      scorerInbox[i].user_address = lastCheck.user}) >= 2

\* C7 (as stated): handling a successful ExecutionResult for a position
\* leaves no cooldown entry for that position; handling a failed one leaves
\* the cooldown entries unchanged.
C7_SuccessClearsCooldown ==
    [][ResultStep =>
         LET msg == Head(monInbox)
         IN  IF msg.success
             THEN \A u \in DOMAIN positions :
                     positions[u].position_id = msg.position_id
                        => u \notin DOMAIN alerted_positions'
             ELSE alerted_positions' = alerted_positions]_vars

(***************************************************************************)
(* Properties of the scorer and the planner                                *)
(***************************************************************************)
\* the ids (of the alert they stem from) of the messages in a channel
IdsIn(inbox) == {inbox[i].id : i \in DOMAIN inbox}
ResultIdsIn(inbox) == {inbox[i].plan.id : i \in DOMAIN inbox}

\* the alert ids for which a strategy, a plan or a result exists anywhere
Downstream ==
    {s.id : s \in stratLog} \cup IdsIn(plannerInbox)
    \cup {p.id : p \in planLog} \cup IdsIn(execInbox) \cup {r.plan.id : r \in execRuns}
    \cup ResultIdsIn(resultLog) \cup ResultIdsIn(monInbox)

\* C5: for an alert the scorer found no strategy for, no OptimizationStrategy
\* is sent, no plan is built and no result (so no error report either) is
\* produced.
C5_NoStrategyHalts == noStrategy \cap Downstream = {}

\* the scorer found no strategy for one alert and the pipeline has run to
\* its end for another
C5_Witness ==
    /\ noStrategy # {}
    /\ Len(resultLog) = 1
    /\ scorerInbox = <<>> /\ scorerRuns = {} /\ plannerInbox = <<>>
    /\ execInbox = <<>> /\ execRuns = {} /\ monInbox = <<>>

\* C6 (as stated): the scorer sends at most one OptimizationStrategy per
\* position_id, re-entrant alerts included.
C6_OneStrategyPerPosition ==
    \A s1, s2 \in stratLog : s1.position_id = s2.position_id => s1 = s2

\* C8 (as stated): when the planner builds no plan for a strategy, a failed
\* ExecutionResult for its position_id is sent to the monitor.
C8_Original ==
    [][planFailed' # planFailed =>
         /\ Len(monInbox') = Len(monInbox) + 1
         /\ ~monInbox'[Len(monInbox')].success
         /\ monInbox'[Len(monInbox')].position_id = Head(plannerInbox).position_id]_vars

\* C8 (amended): when the planner builds no plan for a strategy, nothing is
\* sent: no plan reaches the executor and no result, failed or not, is
\* produced for that strategy.
C8_FailureOnlyLogged ==
    planFailed \cap
      ({p.id : p \in planLog} \cup IdsIn(execInbox) \cup {r.plan.id : r \in execRuns}
       \cup ResultIdsIn(resultLog) \cup ResultIdsIn(monInbox)) = {}

\* the planner built no plan for one strategy, and the pipeline has run to
\* its end with one result, for another
C8_Witness ==
    /\ planFailed # {}
    /\ Len(resultLog) = 1
    /\ scorerInbox = <<>> /\ scorerRuns = {} /\ plannerInbox = <<>>
    /\ execInbox = <<>> /\ execRuns = {} /\ monInbox = <<>>

\* the place of a step type in the order of a plan
StepRank(t) ==
    CASE t = "repay_debt" -> 1
      [] t = "withdraw_collateral" -> 2
      [] t = "swap" -> 3
      [] t \in {"bridge", "fusion_plus_cross_chain"} -> 4
      [] t = "supply_collateral" -> 5
      [] OTHER -> 0

\* C10: in every plan the planner produces the steps are in the order
\* repay_debt, withdraw_collateral, swap, bridge or fusion, supply_collateral,
\* each at most once, with withdraw_collateral present and supply_collateral
\* last.
C10_StepOrder ==
    \A p \in planLog :
        /\ \A i, j \in DOMAIN p.steps :
              i < j => /\ StepRank(p.steps[i].type) < StepRank(p.steps[j].type)
                       /\ StepRank(p.steps[i].type) > 0
        /\ \E i \in DOMAIN p.steps : p.steps[i].type = "withdraw_collateral"
        /\ p.steps # <<>>
        /\ p.steps[Len(p.steps)].type = "supply_collateral"

\* the planner produced a plan with all five kinds of step and one without
\* a repayment and without a cross-chain step
C10_Witness ==
    /\ \E p \in planLog : Len(p.steps) = 5
    /\ \E p \in planLog : Len(p.steps) = 3

(***************************************************************************)
(* Properties of the plans the Swap Optimizer builds                       *)
(***************************************************************************)
\* the plans built by a call of _create_execution_plan
PlansOf(c) == {p \in planLog : p.id = c.strategy.id}

\* the steps of a plan that carry one of the given tags
StepsOfType(p, types) == SelectSeq(p.steps, LAMBDA st : st.type \in types)

CrossChainTypes == {"bridge", "fusion_plus_cross_chain"}

\* C11: a plan contains a swap step if and only if the strategy's collateral
\* token differs from its debt token; for equal tokens no swap quote is
\* requested and no swap step is emitted.
C11_SwapIffTokensDiffer ==
    \A c \in planCalls :
        LET differ == c.strategy.collateral_token # c.strategy.debt_token
        IN  /\ ~differ => ~c.swap_asked
            /\ \A p \in PlansOf(c) : (StepsOfType(p, {"swap"}) # <<>>) <=> differ

\* C12: a plan has exactly one cross-chain step when the target chain differs
\* from the source chain and none when they are equal; the step is a
\* fusion_plus_cross_chain step of gas 0 exactly when the cross-chain quote
\* succeeded, and otherwise a bridge step of gas 5 dollars.
C12_CrossChainStep ==
    \A c \in planCalls : \A p \in PlansOf(c) :
        LET cc == StepsOfType(p, CrossChainTypes)
        IN  IF c.strategy.target_chain = c.strategy.current_chain
            THEN cc = << >>
            ELSE /\ Len(cc) = 1
                 /\ IF c.fusion_route
                    THEN cc[1].type = "fusion_plus_cross_chain" /\ cc[1].estimated_gas = 0
                    ELSE cc[1].type = "bridge" /\ cc[1].estimated_gas = 5000

\* plans were built on one chain, across chains with a Fusion+ quote, and
\* across chains without one
C12_Witness ==
    /\ \E c \in planCalls : \E p \in PlansOf(c) :
          c.strategy.target_chain = c.strategy.current_chain
    /\ \E c \in planCalls : \E p \in PlansOf(c) :
          c.fusion_route /\ StepsOfType(p, {"fusion_plus_cross_chain"}) # << >>
    /\ \E c \in planCalls : \E p \in PlansOf(c) :
          c.fusion_asked /\ ~c.fusion_route /\ StepsOfType(p, {"bridge"}) # << >>

\* C13: a swap quote or a cross-chain quote that fails or is unavailable
\* does not make the planner fail: whatever the quotes return, a call that
\* does not raise produces a plan and sends it; without a swap quote the
\* swap step's expected output is 0.99 times its input amount.
C13_QuoteFailureStillPlans ==
    \A c \in planCalls :
        ~c.raised =>
            /\ PlansOf(c) # {}
            /\ \A p \in PlansOf(c) :
                  LET sw == StepsOfType(p, {"swap"})
                  IN  ~c.swap_route =>
                         /\ Len(sw) = 1
                         /\ sw[1].amount = c.strategy.collateral_amount
                         /\ 100 * sw[1].expected_output = 99 * (100 * sw[1].amount)

\* a plan was built with neither quote, for a cross-chain strategy, and it
\* carries the estimated swap; another was built with both quotes
C13_Witness ==
    /\ \E c \in planCalls : \E p \in PlansOf(c) :
          /\ ~c.raised /\ ~c.swap_route /\ c.fusion_asked /\ ~c.fusion_route
          /\ \E i \in DOMAIN p.steps :
                p.steps[i].type = "swap" /\ p.steps[i].route = "fallback_estimate"
    /\ \E c \in planCalls : \E p \in PlansOf(c) : c.swap_route /\ c.fusion_route

\* the sum of the estimated gas of the first n steps
GasOfFirst(steps, n) ==
    LET sum[k \in 0..Len(steps)] ==
            IF k = 0 THEN 0 ELSE sum[k - 1] + steps[k].estimated_gas
    IN  sum[n]

\* C14: in every plan the planner produces, total_gas_cost is the sum of the
\* estimated gas of all its steps and estimated_completion_time is 30 times
\* the number of steps.
C14_TotalsOfPlan ==
    \A p \in planLog :
        /\ p.total_gas_cost = GasOfFirst(p.steps, Len(p.steps))
        /\ p.estimated_completion_time = 30 * Len(p.steps)

\* a five-step plan over the bridge and a four-step plan with a quoted swap
C14_Witness ==
    /\ \E p \in planLog :
          /\ Len(p.steps) = 5 /\ StepsOfType(p, {"bridge"}) # << >>
          /\ p.total_gas_cost = 5025 /\ p.estimated_completion_time = 150
    /\ \E p \in planLog :
          /\ Len(p.steps) = 4 /\ p.total_gas_cost = 15
          /\ p.estimated_completion_time = 120

\* C15: a plan starts with a repay_debt step, on the source protocol and
\* chain, for the debt token and the debt amount, if and only if the
\* strategy's debt_amount is above 0; every plan has a withdraw_collateral
\* step, with or without debt.
C15_RepayIffDebt ==
    \A c \in planCalls : \A p \in PlansOf(c) :
        LET st == c.strategy
        IN  /\ p.steps # << >>
            /\ (p.steps[1].type = "repay_debt") <=> (st.debt_amount > 0)
            /\ Len(StepsOfType(p, {"repay_debt"})) = (IF st.debt_amount > 0 THEN 1 ELSE 0)
            /\ p.steps[1].type = "repay_debt" =>
                  /\ p.steps[1].protocol = st.current_protocol
                  /\ p.steps[1].chain = st.current_chain
                  /\ p.steps[1].asset = st.debt_token
                  /\ p.steps[1].amount = st.debt_amount
            /\ Len(StepsOfType(p, {"withdraw_collateral"})) = 1

\* a plan for a strategy with debt and a plan for one without
C15_Witness ==
    /\ \E c \in planCalls : \E p \in PlansOf(c) :
          c.strategy.debt_amount > 0 /\ p.steps[1].type = "repay_debt"
    /\ \E c \in planCalls : \E p \in PlansOf(c) :
          c.strategy.debt_amount = 0 /\ p.steps[1].type = "withdraw_collateral"

(***************************************************************************)
(* Properties of the results of the Cross-Chain Executor                   *)
(***************************************************************************)
\* the placeholder identifier of each recognized tag
TxOfTag(t) ==
    CASE t = "repay_debt" -> "0x..1"
      [] t = "withdraw_collateral" -> "0x..2"
      [] t = "swap" -> "0x..3"
      [] t = "bridge" -> "0x..4"
      [] t = "fusion_plus_cross_chain" -> "0xfusion"
      [] t = "supply_collateral" -> "0x..5"

\* the steps of a plan that carry a recognized tag, in plan order
Recognized(steps) == SelectSeq(steps, LAMBDA st : st.type \in KnownStepTypes)

\* no step of the plan raises when it is run
RunsClean(steps) ==
    \A i \in DOMAIN steps : ~(steps[i].raises /\ steps[i].type \in KnownStepTypes)

GasOfStep(st) ==
    IF st.type = "fusion_plus_cross_chain" THEN 0
    ELSE IF st.estimated_gas # -1 THEN st.estimated_gas
    ELSE IF st.type = "swap" THEN 10
    ELSE IF st.type = "bridge" THEN 5000
    ELSE 5

\* the sum of the gas of the first n steps of a sequence
GasSum(steps, n) ==
    LET sum[k \in 0..Len(steps)] ==
            IF k = 0 THEN 0 ELSE sum[k - 1] + GasOfStep(steps[k])
    IN  sum[n]

\* the plans with a step of an unrecognized tag
HasUnknownStep(steps) == Len(Recognized(steps)) < Len(steps)

\* C17: a step with an unrecognized tag is skipped without failing the plan:
\* at every point of a run the tx identifiers and the gas are those of the
\* recognized steps passed so far, the steps after the unrecognized one
\* included, and the result is success = true when no other step raises.
C17_UnknownStepSkipped ==
    /\ \A r \in execRuns :
          r.pc = "run" =>
             LET done == Recognized(SubSeq(r.plan.steps, 1, r.i - 1))
             IN  /\ r.tx_hashes = [i \in DOMAIN done |-> TxOfTag(done[i].type)]
                 /\ r.total_gas = GasSum(done, Len(done))
    /\ \A k \in DOMAIN resultLog :
          LET r == resultLog[k]
          IN  HasUnknownStep(r.plan.steps) /\ RunsClean(r.plan.steps) =>
                 /\ r.success
                 /\ Len(r.tx_hashes) = Len(Recognized(r.plan.steps))

\* a run is past an unrecognized step and has run a step after it, and a
\* plan with an unrecognized step was reported as a success
C17_Witness ==
    /\ \E r \in execRuns :
          /\ r.pc = "run"
          /\ \E i \in 1..(r.i - 2) : r.plan.steps[i].type \notin KnownStepTypes
          /\ Len(r.tx_hashes) = r.i - 2
    /\ \E k \in DOMAIN resultLog :
          /\ HasUnknownStep(resultLog[k].plan.steps)
          /\ resultLog[k].success
          /\ resultLog[k].tx_hashes = << "0x..3", "0xfusion", "0x..4" >>

\* C18: on a successful execution actual_gas_cost is the sum of the gas of
\* the executed steps, and for every plan the planner produced it equals the
\* plan's total_gas_cost.
C18_ActualGas ==
    \A k \in DOMAIN resultLog :
        LET r == resultLog[k]
            done == Recognized(r.plan.steps)
        IN  r.success =>
               /\ r.actual_gas_cost = GasSum(done, Len(done))
               /\ r.plan \in planLog => r.actual_gas_cost = r.plan.total_gas_cost

\* the executor reported a plan of the planner over the bridge and one with
\* a quoted swap and a Fusion+ step
C18_Witness ==
    /\ \E k \in DOMAIN resultLog :
          /\ resultLog[k].success /\ resultLog[k].plan \in planLog
          /\ StepsOfType(resultLog[k].plan, {"bridge"}) # << >>
          /\ resultLog[k].actual_gas_cost = 5025
    /\ \E k \in DOMAIN resultLog :
          /\ resultLog[k].success /\ resultLog[k].plan \in planLog
          /\ StepsOfType(resultLog[k].plan, {"fusion_plus_cross_chain"}) # << >>
          /\ resultLog[k].actual_gas_cost = 10

(***************************************************************************)
(* Properties of the selection of the Yield Optimizer                      *)
(***************************************************************************)
\* the candidates of the call that the selection returned
Selected ==
    {i \in DOMAIN selectCall.available :
        /\ selectCall.result # NoStrategy
        /\ selectCall.result.protocol = selectCall.available[i].protocol}

\* twelve times the cost of a candidate against m months of its profit, both
\* in 1/10000 dollar: break_even_months < m, = m
BreakEvenUnder(t, m) ==
    12 * t.execution_cost * 10000
        < m * selectCall.amount * (t.apy - selectCall.current_apy)
BreakEvenIs(t, m) ==
    12 * t.execution_cost * 10000
        = m * selectCall.amount * (t.apy - selectCall.current_apy)

\* C19: the selection never returns a candidate whose break_even_months is 6
\* or more, whatever the list; a candidate without a positive annual profit
\* counts as not profitable and is never returned.
C19_NeverUnprofitable ==
    \A i \in Selected :
        LET t == selectCall.available[i]
        IN  /\ selectCall.amount * (t.apy - selectCall.current_apy) > 0
            /\ BreakEvenUnder(t, 6)

\* a call whose list holds a candidate that breaks even in exactly 6 months,
\* one with a negative profit and one that was selected
C19_Witness ==
    /\ Selected # {}
    /\ \E i \in DOMAIN selectCall.available :
          BreakEvenIs(selectCall.available[i], 6)
             /\ selectCall.available[i].apy > selectCall.current_apy
    /\ \E i \in DOMAIN selectCall.available :
          selectCall.available[i].apy < selectCall.current_apy

\* C20: the selection never returns a candidate whose APY improvement over
\* the current APY is below the margin of 0.5 percentage points, whatever
\* the candidate list.
C20_NeverBelowMargin ==
    selectCall.result # NoStrategy =>
        selectCall.result.target_apy - selectCall.result.current_apy
            >= MIN_APY_IMPROVEMENT

\* the profit and the score of the i-th candidate of the call
ProfitOf(i) ==
    AnnualProfit(selectCall.amount, selectCall.available[i].apy - selectCall.current_apy)
ScoreOf(i) ==
    ScoreStrategy(selectCall.available[i].apy - selectCall.current_apy,
                  selectCall.available[i].execution_cost, ProfitOf(i),
                  selectCall.urgency, selectCall.amount)

\* the profitable candidates of the call, those of the highest score among
\* them, and those of the lowest cost among these
ProfitableOnes ==
    {i \in DOMAIN selectCall.available :
        IsProfitable(selectCall.available[i].execution_cost, ProfitOf(i))}
TopScored == {i \in ProfitableOnes : \A j \in ProfitableOnes : ScoreOf(j) <= ScoreOf(i)}
Cheapest ==
    {i \in TopScored : \A j \in TopScored :
        selectCall.available[i].execution_cost <= selectCall.available[j].execution_cost}

\* C21: among the profitable candidates the one of the highest score is
\* selected; among several of that score the one of the lowest
\* execution_cost, and among those the one declared first.
C21_TieByCostThenOrder ==
    selectCall # NoCall =>
        IF ProfitableOnes = {}
        THEN selectCall.result = NoStrategy
        ELSE LET first == CHOOSE i \in Cheapest : \A j \in Cheapest : i <= j
             IN  /\ selectCall.result # NoStrategy
                 /\ selectCall.result.protocol = selectCall.available[first].protocol
                 /\ selectCall.result.estimated_gas
                       = selectCall.available[first].execution_cost

\* C22: the score is a sum of four capped components (40, 30, 20 and 10
\* points), so the score of every candidate that is scored lies between 0
\* and 100 points, also for an urgency above 10 or an amount above 50000.
C22_ScoreWithinHundred ==
    /\ \A i \in ProfitableOnes : ScoreOf(i) >= 0 /\ ScoreOf(i) <= 100000
    /\ scoreCall # NoScoreCall =>
          scoreCall.result >= 0 /\ scoreCall.result <= 100000

\* the break-even points of a score: the score less its APY, urgency and
\* size points
BreakevenPoints(score, apy_improvement, urgency, amount) ==
    LET apy == IF 4 * apy_improvement < 40000 THEN 4 * apy_improvement ELSE 40000
        size == IF amount \div 5 < 10000 THEN amount \div 5 ELSE 10000
    IN  score - apy - 2000 * urgency - size

\* cost * 12 / profit <= m, the profit positive
MonthsAtMost(cost, profit, m) == profit > 0 /\ cost * 12 * 10000 <= m * profit

\* C23: the break-even component of the score is 30 for break_even_months
\* <= 1, 20 for <= 3, 10 for <= 6 and 0 above, with break_even_months =
\* execution_cost * 12 / annual_profit and annual_profit = amount *
\* apy_improvement / 100; at current APY 5.2, candidate APY 9.1, amount
\* 100000 and cost 65 the candidate is profitable and the component is 30.
C23_BreakevenSteps ==
    /\ scoreCall # NoScoreCall =>
          BreakevenPoints(scoreCall.result, scoreCall.apy_improvement,
                          scoreCall.urgency, scoreCall.amount)
            = IF MonthsAtMost(scoreCall.cost, scoreCall.profit, 1) THEN 30000
              ELSE IF MonthsAtMost(scoreCall.cost, scoreCall.profit, 3) THEN 20000
              ELSE IF MonthsAtMost(scoreCall.cost, scoreCall.profit, 6) THEN 10000
              ELSE 0
    /\ (/\ selectCall.current_apy = 520 /\ selectCall.amount = 100000
        /\ selectCall.available = << Candidate("kamino", 910, 65) >>) =>
          /\ AnnualProfit(selectCall.amount, 910 - 520) = 3900 * 10000
          /\ selectCall.result.protocol = "kamino"
    /\ (/\ scoreCall.apy_improvement = 390 /\ scoreCall.cost = 65
        /\ scoreCall.profit = 3900 * 10000 /\ scoreCall.amount = 100000) =>
          BreakevenPoints(scoreCall.result, 390, scoreCall.urgency, 100000) = 30000

\* the figures of the scenario were scored
C23_Scenario ==
    /\ scoreCall.apy_improvement = 390 /\ scoreCall.cost = 65
    /\ scoreCall.profit = 3900 * 10000 /\ scoreCall.amount = 100000

\* the candidate of the scenario was selected
C23_Selected ==
    /\ selectCall.current_apy = 520 /\ selectCall.amount = 100000
    /\ selectCall.available = << Candidate("kamino", 910, 65) >>
    /\ selectCall.result.protocol = "kamino"

\* a score for a break-even of exactly one month
C23_OneMonth ==
    /\ scoreCall # NoScoreCall
    /\ scoreCall.cost = 100 /\ scoreCall.profit = 1200 * 10000

(***************************************************************************)
(* The execution method the reasoner selects                               *)
(***************************************************************************)
MentionsPyusd(chain) == chain \in {"pyusd", "solana-pyusd", "PYUSD-mainnet"}
KnownEvm(chain) == chain \in {"ethereum", "arbitrum", "optimism", "base"}

\* C24: the fallback execution method follows the first matching rule: same
\* chain gives direct-swap (also for solana to solana and for two equal names
\* that mention pyusd); else a side mentioning pyusd gives layerzero-pyusd;
\* else a side being solana gives fusion-cross-chain; else both sides in
\* {ethereum, arbitrum, optimism, base} gives fusion-cross-chain; else
\* standard-bridge; the result is always one of the four methods.
C24_MethodByPriority ==
    methodCall # NoMethodCall =>
        LET f == methodCall.from_chain
            t == methodCall.to_chain
            r == methodCall.result
        IN  /\ r \in {"direct-swap", "layerzero-pyusd", "fusion-cross-chain",
                      "standard-bridge"}
            /\ f = t => r = "direct-swap"
            /\ f # t /\ (MentionsPyusd(f) \/ MentionsPyusd(t)) => r = "layerzero-pyusd"
            /\ (/\ f # t /\ ~MentionsPyusd(f) /\ ~MentionsPyusd(t)
                /\ (f = "solana" \/ t = "solana")) => r = "fusion-cross-chain"
            /\ (/\ f # t /\ ~MentionsPyusd(f) /\ ~MentionsPyusd(t)
                /\ f # "solana" /\ t # "solana"
                /\ KnownEvm(f) /\ KnownEvm(t)) => r = "fusion-cross-chain"
            /\ (/\ f # t /\ ~MentionsPyusd(f) /\ ~MentionsPyusd(t)
                /\ f # "solana" /\ t # "solana"
                /\ ~(KnownEvm(f) /\ KnownEvm(t))) => r = "standard-bridge"

\* the method was asked for one chain that mentions pyusd, on both sides
C24_SamePyusdChain ==
    /\ methodCall.from_chain = "solana-pyusd" /\ methodCall.to_chain = "solana-pyusd"
    /\ methodCall.result = "direct-swap"

(***************************************************************************)
(* The Position Monitor without a price, and without the reasoning engine  *)
(***************************************************************************)
\* C25: when the collateral price of a position is unavailable on a tick the
\* position is skipped for that tick: no alert is sent, its cooldown entry and
\* its table entry stay as they are, nothing records it as safe, and the
\* next tick takes it up again with every other position of the table.
C25_NoPriceSkips ==
    [][ /\ (CheckStep /\ lastCheck'.price = 0) =>
             /\ lastCheck'.user = Head(monTodo)
             /\ UNCHANGED <<scorerInbox, msgSeq, alerted_positions, lastAlertAt,
                            clearedSince, positions, posOrder, demo_status>>
             /\ \E i \in DOMAIN posOrder' : posOrder'[i] = Head(monTodo)
        /\ (~monChecking /\ monTodo' # monTodo) => monTodo' = posOrder'
      ]_vars

\* a position with debt and no cooldown entry was checked without a price
C25_SkippedRisky ==
    /\ lastCheck.user \in DOMAIN positions
    /\ lastCheck.price = 0
    /\ positions[lastCheck.user].debt_amount > 0
    /\ lastCheck.user \notin DOMAIN alerted_positions
    /\ lastCheck.at = now

(***************************************************************************)
(* The order of the messages of one pipeline run                           *)
(***************************************************************************)
\* the step appends one message to the inbox
Grows(inbox, inboxNext) == Len(inboxNext) = Len(inbox) + 1
Newest(inboxNext) == inboxNext[Len(inboxNext)]
Shrinks(inbox, inboxNext) == inbox # <<>> /\ inboxNext = Tail(inbox)

\* C26: the messages of a position follow each other in causal order: a
\* strategy is sent only by a scorer run that received an alert of that
\* position, a plan only by the planner taking a strategy of that position
\* from its inbox, a result only by an executor run that accepted a plan of
\* that position; and a stage sends to the next stage only: the scorer to the
\* planner, the planner to the executor, the executor to the monitor, the
\* monitor to none of the planner and the executor.
C26_CausalOrder ==
    [][ /\ Grows(plannerInbox, plannerInbox') =>
             \E a \in scorerRuns :
                /\ a.id = Newest(plannerInbox').id
                /\ a.position_id = Newest(plannerInbox').position_id
                /\ a.id \notin IdsIn(scorerInbox)
                /\ a \notin scorerRuns'
        /\ Grows(execInbox, execInbox') =>
             /\ Shrinks(plannerInbox, plannerInbox')
             /\ Head(plannerInbox).id = Newest(execInbox').id
             /\ Head(plannerInbox).position_id = Newest(execInbox').position_id
             /\ Head(plannerInbox) \in stratLog
        /\ Grows(monInbox, monInbox') =>
             \E r \in execRuns :
                /\ r.plan = Newest(monInbox').plan
                /\ r.plan.position_id = Newest(monInbox').position_id
                /\ r.plan.position_id \in executed_positions
                /\ r.plan \in planLog
                /\ r.plan.id \notin IdsIn(execInbox)
        /\ (Shrinks(scorerInbox, scorerInbox') \/ scorerRuns' # scorerRuns) =>
             UNCHANGED <<execInbox, monInbox>>
        /\ Shrinks(plannerInbox, plannerInbox') =>
             UNCHANGED <<scorerInbox, monInbox>>
        /\ (Shrinks(execInbox, execInbox') \/ execRuns' # execRuns) =>
             UNCHANGED <<scorerInbox, plannerInbox>>
        /\ Shrinks(monInbox, monInbox') =>
             UNCHANGED <<scorerInbox, plannerInbox, execInbox>>
      ]_vars

\* the result of a plan of a strategy of an alert has reached the monitor,
\* for a position whose id is not its user's address
C26_ResultOfAlert ==
    /\ Len(resultLog) >= 1
    /\ resultLog[1].plan \in planLog
    /\ \E st \in stratLog :
          /\ st.id = resultLog[1].plan.id
          /\ st.position_id = resultLog[1].position_id
          /\ st.position_id # st.user_address

(***************************************************************************)
(* The Position Monitor with and without the reasoning engine              *)
(***************************************************************************)
\* C27: whether the reasoning engine answers does not change what the monitor
\* does: a check of a position at a price has, with any answer of the engine,
\* the effect it has in fallback mode: an alert is sent exactly when the
\* price is there, the health factor is below 1.5 and the cooldown is over,
\* with the same fields and the same cooldown entry; only the alert's
\* risk_level may differ.
C27_EngineDoesNotSteer ==
    [][CheckStep =>
         LET u == Head(monTodo)
             pos == positions[u]
             price == lastCheck'.price
             hf == IF pos.debt_amount > 0
                   THEN (pos.collateral_amount * price * 85) \div pos.debt_amount
                   ELSE 99900
             inFallback == price # 0 /\ hf < 150 /\ now - LastAlert(u) >= 300
             sent == scorerInbox'[Len(scorerInbox')]
         IN  /\ AlertSent <=> inFallback
             /\ AlertSent =>
                  /\ [sent EXCEPT !.risk_level = "any"]
                       = [user_address |-> u, position_id |-> pos.position_id,
                          protocol |-> pos.protocol, chain |-> pos.chain,
                          health_factor |-> hf,
                          collateral_value |-> pos.collateral_amount * price,
                          debt_value |-> pos.debt_amount,
                          collateral_token |-> pos.collateral_token,
                          debt_token |-> pos.debt_token, risk_level |-> "any",
                          via |-> "check", id |-> msgSeq + 1]
                  /\ alerted_positions' = Put(alerted_positions, u, now)
             /\ ~AlertSent => UNCHANGED <<alerted_positions, scorerInbox>>
             /\ monChecking' = (monTodo' # <<>>)
             /\ UNCHANGED <<positions, posOrder, last_subgraph_fetch, monInbox,
                            demo_status, pendingDemo, metta_available>>
      ]_vars

\* the engine called a position safe whose health factor is below 1.5, and
\* the alert went out; another alert carries the level of the fallback
C27_BothModesAlerted ==
    /\ metta_available
    /\ \E i, j \in DOMAIN scorerInbox :
          /\ scorerInbox[i].via = "check" /\ scorerInbox[j].via = "check"
          /\ scorerInbox[i].health_factor < 150
          /\ scorerInbox[i].risk_level = "safe"
          /\ scorerInbox[j].risk_level = "critical"

(***************************************************************************)
(* The outputs of the reasoner                                             *)
(***************************************************************************)
\* C28: every output of the reasoner, a risk assessment as well as a
\* selected strategy, carries a flag that is true exactly when the engine
\* computed it and false when the fallback formulas did.
C28_OutputsCarryFlag ==
    /\ riskCall # NoRiskCall =>
          /\ "using_metta" \in riskCall.keys
          /\ riskCall.result.using_metta <=> riskCall.answer # "none"
    /\ selectCall.result # NoStrategy => "using_metta" \in selectCall.keys

\* the flag of a risk assessment tells which path computed it
C28_RiskFlag ==
    riskCall # NoRiskCall =>
        /\ "using_metta" \in riskCall.keys
        /\ riskCall.result.using_metta <=> riskCall.answer # "none"

\* C29: in fallback mode a health factor below 1.3 is critical and one from
\* 1.3 up to, not including, 1.5 is high: 1.3 itself is high, 1.5 itself is
\* not high.
C29_FallbackTiers ==
    (riskCall # NoRiskCall /\ ~riskCall.result.using_metta) =>
        /\ riskCall.health_factor < 130 => riskCall.result.risk_level = "critical"
        /\ (riskCall.health_factor >= 130 /\ riskCall.health_factor < 150) =>
              riskCall.result.risk_level = "high"
        /\ riskCall.health_factor = 130 => riskCall.result.risk_level = "high"
        /\ riskCall.health_factor = 150 => riskCall.result.risk_level # "high"

\* the fallback assessed a health factor of exactly 1.3
C29_AtCritical ==
    /\ riskCall.health_factor = 130
    /\ ~riskCall.result.using_metta
    /\ riskCall.result.risk_level = "high"

\* the severity of a risk level
Severity(level) ==
    IF level = "critical" THEN 4
    ELSE IF level = "high" THEN 3
    ELSE IF level = "moderate" THEN 2
    ELSE IF level = "low" THEN 1
    ELSE 0

\* C30: in fallback mode too the risk levels cover five tiers: from 1.5 up
\* to 1.8 moderate, from 1.8 up to 2.2 low, from 2.2 on safe.
C30_FiveTiers ==
    (riskCall # NoRiskCall /\ ~riskCall.result.using_metta) =>
        /\ (riskCall.health_factor >= 150 /\ riskCall.health_factor < 180) =>
              riskCall.result.risk_level = "moderate"
        /\ (riskCall.health_factor >= 180 /\ riskCall.health_factor < 220) =>
              riskCall.result.risk_level = "low"
        /\ riskCall.health_factor >= 220 => riskCall.result.risk_level = "safe"

\* a higher health factor never gets a more severe level from the fallback
\* than a lower one
C30_FallbackMonotonic ==
    (riskCall # NoRiskCall /\ ~riskCall.result.using_metta) =>
        \A lower \in 0..riskCall.health_factor :
            Severity(SimpleRisk(lower)) >= Severity(riskCall.result.risk_level)

\* clamp(10 - 5 * (hf - 1), 0, 10) in hundredths, hf in hundredths
ClosedFormUrgency(hf) ==
    LET raw == 1000 - 5 * (hf - 100)
    IN  IF raw < 0 THEN 0 ELSE IF raw > 1000 THEN 1000 ELSE raw

\* the health factor of 10.5 WETH at 2696 against a debt of 25000, at the
\* liquidation threshold 0.85, in hundredths
ScenarioHf == (85 * 105 * 2696) \div (25000 * 10)

\* C31: in fallback mode the urgency score stays in 0..10 and follows the
\* closed form clamp(10 - 5 * (hf - 1), 0, 10), so it never increases with
\* the health factor; the scenario position (health factor about 0.962) is
\* critical with an urgency of at least 8.
C31_FallbackUrgency ==
    (riskCall # NoRiskCall /\ ~riskCall.result.using_metta) =>
        /\ riskCall.result.urgency_score \in 0..10
        /\ riskCall.result.urgency_score * 100 = ClosedFormUrgency(riskCall.health_factor)
        /\ riskCall.health_factor = ScenarioHf =>
              /\ riskCall.result.risk_level = "critical"
              /\ riskCall.result.urgency_score >= 8

\* what does hold of the fallback urgency: it is within 0..10, the same for
\* every health factor, and the scenario position is critical
C31_FallbackUrgencyFixed ==
    (riskCall # NoRiskCall /\ ~riskCall.result.using_metta) =>
        /\ riskCall.result.urgency_score = 5
        /\ riskCall.health_factor = ScenarioHf => riskCall.result.risk_level = "critical"

(***************************************************************************)
(* The Position Monitor: positions without debt, refreshes, failures       *)
(***************************************************************************)
\* C32: a position whose debt is 0 gets the health factor 999 instead of a
\* division, and so never triggers an alert, whatever its collateral amount
\* and price.
C32_NoDebtNoAlert ==
    [][(CheckStep /\ positions[Head(monTodo)].debt_amount = 0) =>
          /\ lastCheck'.user = Head(monTodo)
          /\ lastCheck'.price # 0 => lastCheck'.hf = 99900
          /\ ~AlertSent
          /\ UNCHANGED <<scorerInbox, alerted_positions, msgSeq>>
      ]_vars

\* a position with collateral and no debt was checked at a price, with no
\* cooldown entry in the way
C32_NoDebtChecked ==
    /\ lastCheck.user \in DOMAIN positions
    /\ positions[lastCheck.user].debt_amount = 0
    /\ positions[lastCheck.user].collateral_amount > 0
    /\ lastCheck.price # 0
    /\ lastCheck.hf = 99900
    /\ lastCheck.at = now
    /\ lastCheck.user \notin DOMAIN alerted_positions

\* the entry tracked for a position id, if any
TrackedAs(tbl, id) == {u \in DOMAIN tbl : tbl[u].position_id = id}

\* C33: a refresh merges the indexer's positions into the tracked set by
\* position_id: after it every position id the indexer returned with a
\* non-negative health factor is tracked with its data, two positions of one
\* user included.
C33_MergedByPositionId ==
    refreshCall # NoRefresh =>
        LET last == refreshCall.replies[Len(refreshCall.replies)]
        IN  \A i \in DOMAIN last :
               last[i].healthFactor >= 0 =>
                  \E u \in TrackedAs(refreshCall.positions, last[i].id) :
                     /\ refreshCall.positions[u].collateral_amount = last[i].collateralAmount
                     /\ refreshCall.positions[u].debt_amount = last[i].debtAmount

\* what does hold: after a refresh every user the indexer returned with a
\* non-negative health factor is tracked, with the last of that user's
\* positions in the list
C33_MergedByUser ==
    refreshCall # NoRefresh =>
        LET last == refreshCall.replies[Len(refreshCall.replies)]
        IN  \A i \in DOMAIN last :
               (/\ last[i].healthFactor >= 0
                /\ \A j \in DOMAIN last :
                      (j > i /\ last[j].healthFactor >= 0) => last[j].user # last[i].user) =>
                  /\ last[i].user \in DOMAIN refreshCall.positions
                  /\ refreshCall.positions[last[i].user].position_id = last[i].id

\* a step of monitor_positions that refreshed the table from the indexer
RefreshStep == ~monChecking /\ last_subgraph_fetch' # last_subgraph_fetch

\* C34: no message of a downstream stage changes the monitor's position
\* table: handling an ExecutionResult leaves every entry as it is (the
\* cooldown map and the demo status may change), and entries are created or
\* overwritten by the monitor's refresh and by its add-position request only.
C34_TableIsTheMonitors ==
    [][ /\ ResultStep => UNCHANGED <<positions, posOrder>>
        /\ positions' # positions =>
              \/ RefreshStep /\ monInbox' = monInbox
              \/ /\ \E req \in AddRequests :
                       /\ req.user_address \in DOMAIN positions'
                       /\ positions'[req.user_address].position_id = req.position_id
                       /\ \A u \in DOMAIN positions \ {req.user_address} :
                             u \in DOMAIN positions' /\ positions'[u] = positions[u]
                 /\ UNCHANGED <<monInbox, last_subgraph_fetch>>
      ]_vars

\* a successful result for a tracked position was handled and its cooldown
\* entry cleared; the position is still tracked, with its debt
C34_ResultHandled ==
    \E u \in clearedSince :
        /\ u \in DOMAIN positions
        /\ positions[u].position_id = u
        /\ positions[u].debt_amount > 0
        /\ monInbox = <<>>

(***************************************************************************)
(* Termination of the Cross-Chain Executor                                 *)
(***************************************************************************)
\* how far the handling of an accepted plan has come: the index of its next
\* step, then the return of _execute_plan, then the send
Progress(r) ==
    IF r.pc = "run" THEN r.i
    ELSE IF r.pc = "return" THEN Len(r.plan.steps) + 2
    ELSE Len(r.plan.steps) + 3

\* the step of a plan that ends its run early: the first one that raises
StopsRun(step) ==
    step.raises /\ step.type \in {"repay_debt", "withdraw_collateral", "swap",
                                   "bridge", "fusion_plus_cross_chain",
                                   "supply_collateral"}

\* the results sent for a plan, and the plans tallied
ResultsOfPlan(plan) == {k \in DOMAIN resultLog : resultLog[k].plan = plan}
Tallied == {k \in DOMAIN resultLog :
              \A r \in execRuns : r.plan # resultLog[k].plan}

\* C35: every plan the executor accepted terminates: its steps run in order,
\* none is skipped back or cancelled, the run stops at the end or at the
\* first step that raises, and then exactly one ExecutionResult is sent for
\* it to the monitor and exactly one of executions_completed and
\* executions_failed goes up by one.
C35_AcceptedPlanTerminates ==
    /\ [][\A r \in execRuns :
            \/ r \in execRuns'
            \/ /\ r.pc = "sent"
               /\ \A r2 \in execRuns' : r2.plan # r.plan
               /\ Cardinality(ResultsOfPlan(r.plan)) = 1
               /\ IF resultLog[CHOOSE k \in ResultsOfPlan(r.plan) : TRUE].success
                  THEN /\ executions_completed' = executions_completed + 1
                       /\ executions_failed' = executions_failed
                  ELSE /\ executions_failed' = executions_failed + 1
                       /\ executions_completed' = executions_completed
            \/ /\ r.pc # "sent"
               /\ \E r2 \in execRuns' :
                     /\ r2.plan = r.plan
                     /\ r2 \notin execRuns
                     /\ IF r.pc = "run" /\ r.i <= Len(r.plan.steps)
                        THEN IF StopsRun(r.plan.steps[r.i])
                             THEN r2.pc = "return" /\ ~r2.result.success
                             ELSE r2.pc = "run" /\ r2.i = r.i + 1
                        ELSE Progress(r2) = Progress(r) + 1
                     /\ r.pc = "return" =>
                           /\ Len(resultLog') = Len(resultLog) + 1
                           /\ Len(monInbox') = Len(monInbox) + 1
                           /\ monInbox'[Len(monInbox')].plan = r.plan
               /\ UNCHANGED <<executions_completed, executions_failed>>
        ]_vars
    /\ [](/\ \A r \in execRuns :
               Cardinality(ResultsOfPlan(r.plan)) = IF r.pc = "sent" THEN 1 ELSE 0
          /\ \A k \in DOMAIN resultLog : Cardinality(ResultsOfPlan(resultLog[k].plan)) = 1
          /\ executions_completed + executions_failed = Cardinality(Tallied))
    /\ \A pid \in PosIds :
          (pid \in executed_positions) ~>
              (/\ RunsFor(pid) = {}
               /\ Cardinality(ResultsFor(pid)) = 1)

\* two accepted plans have terminated, one at its end and one at a step that
\* raised, each with its result sent and counted
C35_BothEndings ==
    /\ execRuns = {}
    /\ executions_completed = 1
    /\ executions_failed = 1
    /\ Len(resultLog) = 2
    /\ \E k \in DOMAIN resultLog :
          /\ ~resultLog[k].success
          /\ Len(resultLog[k].plan.steps) >= 2

(***************************************************************************)
(* From an alert to its recorded result                                    *)
(***************************************************************************)
AlertedIds == {a.position_id : a \in EnvAlerts}

\* the scorer found a strategy for an alert of the position and sent it
StrategyFound(pid) == \E st \in stratLog : st.position_id = pid
\* building the plan of a strategy of the position raised
PlannerFailed(pid) ==
    \E st \in stratLog : st.position_id = pid /\ st.id \in planFailed
\* a result for the position was sent to the monitor and the monitor has
\* handled it
ResultRecorded(pid) ==
    /\ \E k \in DOMAIN resultLog : resultLog[k].position_id = pid
    /\ \A j \in DOMAIN monInbox : monInbox[j].position_id # pid

\* C36: with every agent scheduled fairly and no message lost, an alert for a
\* position not yet processed for which the scorer finds a strategy leads,
\* unless building the plan raises, to an ExecutionResult for that position
\* that the monitor has received and handled.
C36_AlertLeadsToResult ==
    \A pid \in AlertedIds :
        StrategyFound(pid) ~> (ResultRecorded(pid) \/ PlannerFailed(pid))

\* a strategy was found for an alert, no plan failed, and the monitor has
\* handled the result of the position
C36_ResultRecorded ==
    /\ planFailed = {}
    /\ \E pid \in AlertedIds : StrategyFound(pid) /\ ResultRecorded(pid)
    /\ monInbox = <<>>

(***************************************************************************)
(* The Position Monitor: a check that raises                               *)
(***************************************************************************)
\* a step in which the check of the user at the head of monTodo raises
RaisedStep ==
    /\ monChecking
    /\ monTodo # <<>>
    /\ lastCheck' # lastCheck
    /\ lastCheck'.raised # "none"

\* C37: a check that raises (at the price lookup or at the send of the
\* alert) does not stop the tick: the positions after it in the polling
\* order are still to be checked in the same tick, and while the set of
\* tracked users stays the same nothing but a check takes a position off
\* that list; nothing of another position is touched; and when the loop is
\* over the next tick can start.
C37_ErrorsArePositionScoped ==
    /\ [][RaisedStep =>
             /\ monTodo' = Tail(monTodo)
             /\ monChecking' = (Tail(monTodo) # <<>>)
             /\ lastCheck'.user = Head(monTodo)
             /\ positions' = positions /\ posOrder' = posOrder
             /\ scorerInbox' = scorerInbox
             /\ \A u \in DOMAIN alerted_positions' :
                   u # Head(monTodo) =>
                      /\ u \in DOMAIN alerted_positions
                      /\ alerted_positions'[u] = alerted_positions[u]
       ]_vars
    /\ [][(monChecking /\ monTodo' # monTodo
                        /\ DOMAIN positions' = DOMAIN positions) =>
             /\ monTodo' = Tail(monTodo)
             /\ lastCheck'.user = Head(monTodo)
             /\ lastCheck'.at = now
       ]_vars
    /\ [](monChecking => (monTodo # <<>> /\ ENABLED CheckPosition))
    /\ [](~monChecking => (monTodo = <<>> /\ ENABLED MonitorTick))

\* the check of the first of two tracked positions raised, the second was
\* then checked in the same tick, and the loop is over
C37_CheckedAfterRaise ==
    /\ ~monChecking
    /\ Len(posOrder) = 2
    /\ lastCheck.user = posOrder[2]
    /\ lastCheck.raised = "none"
    /\ lastCheck.at = now
    /\ posOrder[1] \in DOMAIN alerted_positions
    /\ alerted_positions[posOrder[1]] = now
    /\ \A i \in DOMAIN scorerInbox : scorerInbox[i].user_address # posOrder[1]
    /\ posOrder[1] \notin DOMAIN lastAlertAt

(***************************************************************************)
(* The Scorer's processed positions                                        *)
(***************************************************************************)
\* the positions for which the scorer sent a strategy
PositionsWithStrategy == {st.position_id : st \in stratLog}

\* C38: a position id enters processed_positions only in the step that found
\* a strategy for an alert of that position and sent it; the step in which
\* an alert ends without a strategy leaves the set (and the planner's inbox)
\* unchanged; so an alert is skipped only for a position a strategy was sent
\* for, and an alert that comes after one that ended without a strategy is
\* evaluated again.
C38_ProcessedOnlyWithStrategy ==
    /\ [][processed_positions' # processed_positions =>
             \E msg \in scorerRuns :
                /\ processed_positions' = processed_positions \cup {msg.position_id}
                /\ scorerRuns' = scorerRuns \ {msg}
                /\ Len(plannerInbox') = Len(plannerInbox) + 1
                /\ plannerInbox'[Len(plannerInbox')].position_id = msg.position_id
                /\ plannerInbox'[Len(plannerInbox')].id = msg.id
                /\ plannerInbox'[Len(plannerInbox')].target_protocol # "none"
                /\ msg.id \notin noStrategy'
       ]_vars
    /\ [][noStrategy' # noStrategy =>
             /\ processed_positions' = processed_positions
             /\ plannerInbox' = plannerInbox
             /\ stratLog' = stratLog
       ]_vars
    /\ [][(scorerInbox # <<>> /\ scorerInbox' = Tail(scorerInbox)) =>
             IF Head(scorerInbox).position_id \in PositionsWithStrategy
             THEN scorerRuns' = scorerRuns
             ELSE scorerRuns' = scorerRuns \cup {Head(scorerInbox)}
       ]_vars
    /\ [](processed_positions = PositionsWithStrategy)

\* an alert of a position ended without a strategy, and a later alert of the
\* same position produced one
C38_LaterAlertFindsStrategy ==
    \E st \in stratLog :
        /\ st.position_id \in processed_positions
        /\ \E a \in noStrategy : a < st.id
        /\ \A st2 \in stratLog : st2.position_id = st.position_id
        /\ Cardinality(noStrategy) = 1
        /\ msgSeq = 2

(***************************************************************************)
(* The Position Monitor: a fetch that raises or returns nothing            *)
(***************************************************************************)
\* whether a sequence starts with another
IsPrefix(a, b) == Len(a) <= Len(b) /\ SubSeq(b, 1, Len(a)) = a

\* C39: when the fetch raises or returns no position the table is left as
\* it was and every position loaded before is still checked in that run;
\* after a fetch that raised the time of the last fetch is not advanced, so
\* the next run fetches again; no run removes a position from the table,
\* and a returned position with a negative health factor is not stored.
C39_FailedFetchKeepsTable ==
    /\ [][refreshCall' # refreshCall =>
             LET n == Len(refreshCall'.outcomes)
                 outcome == refreshCall'.outcomes[n]
                 list == refreshCall'.replies[n]
             IN  /\ (outcome = "raised" \/ list = <<>>) =>
                       /\ refreshCall'.positions = refreshCall.positions
                       /\ refreshCall'.order = refreshCall.order
                       /\ refreshCall'.todo = refreshCall.order
                 /\ outcome = "raised" =>
                       /\ refreshCall'.last = refreshCall.last
                       /\ refreshCall'.at - refreshCall'.last > 25
                 /\ outcome = "returned" => refreshCall'.last = refreshCall'.at
                 /\ outcome = "not_due" => refreshCall'.at - refreshCall.last <= 25
                 /\ DOMAIN refreshCall.positions \subseteq DOMAIN refreshCall'.positions
                 /\ IsPrefix(refreshCall.order, refreshCall'.order)
                 /\ refreshCall'.todo = refreshCall'.order
                 /\ \A u \in DOMAIN refreshCall'.positions :
                       refreshCall'.positions[u].health_factor >= 0
                 /\ \A i \in DOMAIN list :
                       (/\ list[i].healthFactor < 0
                        /\ \A j \in DOMAIN list : j # i => list[j].user # list[i].user) =>
                          /\ list[i].user \in DOMAIN refreshCall'.positions
                                <=> list[i].user \in DOMAIN refreshCall.positions
                          /\ list[i].user \in DOMAIN refreshCall.positions =>
                                refreshCall'.positions[list[i].user]
                                   = refreshCall.positions[list[i].user]
       ]_vars
    /\ [](\A k \in 1..(Len(refreshCall.outcomes) - 1) :
             refreshCall.outcomes[k] = "raised" =>
                refreshCall.outcomes[k + 1] # "not_due")

\* after a fetch that loaded positions, one raised and the next returned
\* nothing: the loaded positions are still there and still checked
C39_KeptAfterFailures ==
    /\ refreshCall.outcomes = <<"returned", "raised", "returned">>
    /\ refreshCall.replies[1] # <<>>
    /\ refreshCall.replies[3] = <<>>
    /\ Len(refreshCall.order) = 2
    /\ refreshCall.todo = refreshCall.order
    /\ refreshCall.last = refreshCall.at

(***************************************************************************)
(* What the strategy of an alert depends on                                *)
(***************************************************************************)
\* C40: the strategy chosen for an alert does not depend on the alert's
\* health factor, risk level, collateral value or debt value: every alert is
\* scored with amount 10000 and urgency 9, and two alerts that agree on
\* protocol, chain and collateral token get, from the same yield data, the
\* same target.
C40_StrategyIgnoresMeasurements ==
    yieldCall # NoYieldCall =>
        LET a1 == yieldCall.alerts[1]
            a2 == yieldCall.alerts[2]
        IN  /\ \A i \in {1, 2} :
                  /\ yieldCall.args[i].amount = 10000
                  /\ yieldCall.args[i].urgency = 9
            /\ (/\ a1.protocol = a2.protocol
                /\ a1.chain = a2.chain
                /\ a1.collateral_token = a2.collateral_token) =>
                  /\ yieldCall.args[1] = yieldCall.args[2]
                  /\ yieldCall.targets[1] = yieldCall.targets[2]

\* two alerts of the same protocol, chain and collateral token that differ
\* in health factor, risk level, collateral value and debt value got the
\* same target
C40_SameTarget ==
    /\ yieldCall # NoYieldCall
    /\ LET a1 == yieldCall.alerts[1]
           a2 == yieldCall.alerts[2]
       IN  /\ a1.chain = a2.chain /\ a1.collateral_token = a2.collateral_token
           /\ a1.health_factor # a2.health_factor
           /\ a1.risk_level # a2.risk_level
           /\ a1.collateral_value # a2.collateral_value
           /\ a1.debt_value # a2.debt_value
    /\ yieldCall.targets[1] = yieldCall.targets[2]
    /\ yieldCall.targets[1] # NoStrategy

====
